---- MODULE Spec2Model ----
(***************************************************************************)
(* Task / category query-and-mutation layer of the task tracker: the REST  *)
(* route handlers (app/api/tasks, app/api/categories), the second category *)
(* by-id route, and the server actions (lib/actions), over the two Mongo   *)
(* collections Task and Category.                                          *)
(*                                                                         *)
(* Every handler is an operator from the collections and its arguments to  *)
(* its outcome: the response the caller gets and the collections after it. *)
(*                                                                         *)
(* Spec     : requests served one after the other, tasks and categories.   *)
(* SpecCat  : requests served one after the other, categories only.        *)
(* SpecConc : category create / rename requests split at the awaits        *)
(*            between their persistence calls, two requests in flight.     *)
(***************************************************************************)
EXTENDS Integers, Sequences, FiniteSets, TLC

\* ---------------------------------------------------------------- bounds
\* ObjectIds available to Spec
MaxTasks == 2
MaxCategories == 2
\* ObjectIds available to SpecCat
MaxCatalog == 3
\* ObjectIds available to SpecConc
MaxConcCatalog == 2

\* ------------------------------------------------------------ value sets
Users == {"u1", "u2"}

\* JSON null, and a key or query parameter that is not given
Null == 0
Absent == -1
NoKey == "<absent>"

\* getServerSession / getSession gave no session (null)
NoSession == "<no session>"

\* enum TaskStatus, restricted to the two values the inputs use
TODO == "TODO"
COMPLETED == "COMPLETED"
StatusInputs == {TODO, COMPLETED}

\* category names are character sequences so that trimming is computed
NameInputs ==
  { <<"a", "b">>, <<" ", "a", "b">>, <<"c", "d">>, <<" ", "a">>, <<"a">> }

CategoryNameMin == 2
CategoryNameMax == 30

VARIABLES
  tasks,            \* Task collection: _id -> [userId, status, categoryId]
  taskCreator,      \* history: _id -> the session user Task.create ran for
  categories,       \* Category collection: _id -> [name, userId]
  freeTaskIds,      \* ObjectIds not yet given to a task
  freeCategoryIds,  \* ObjectIds not yet given to a category
  inflight,         \* SpecConc: the requests between two persistence calls
  users,            \* User collection: _id -> [name, email, role]
  cached,           \* global.mongoose of dbConnect: [conn, promise], with
                    \* the promises of mongoose.connect and the job queue
  hook              \* useTasks of one page: its state, URL and module cache

\* global.mongoose as the module leaves it: {conn: null, promise: null}; no
\* promise of mongoose.connect exists (attempts) and no continuation of an
\* await is queued (jobs)
NotConnected ==
  [conn |-> Null, promise |-> Null, attempts |-> <<>>, jobs |-> <<>>]

\* useTasks after its useState initialisers, on a URL without parameters:
\* nothing loaded, nothing cached, no request under way, and the effects of
\* the first render still to run
HookInitial ==
  [url |-> [status |-> NoKey, priority |-> NoKey, categoryId |-> Absent,
            search |-> <<"<absent>">>, page |-> Absent, limit |-> Absent],
   tasks |-> {}, filteredTasks |-> {}, isLoading |-> TRUE,
   pagination |-> [total |-> 0, page |-> 1, limit |-> 10, totalPages |-> 1],
   isClientSideFiltering |-> FALSE, cache |-> <<>>, request |-> <<>>,
   effects |-> TRUE]

store ==
  <<tasks, taskCreator, categories, freeTaskIds, freeCategoryIds, users,
    cached, hook>>
vars == <<tasks, taskCreator, categories, freeTaskIds, freeCategoryIds,
          inflight, users, cached, hook>>

\* ------------------------------------------------------- pure functions
RECURSIVE TrimStart(_)
TrimStart(s) ==
  IF s # <<>> /\ Head(s) = " " THEN TrimStart(Tail(s)) ELSE s

RECURSIVE TrimEnd(_)
TrimEnd(s) ==
  IF s # <<>> /\ s[Len(s)] = " " THEN TrimEnd(SubSeq(s, 1, Len(s) - 1)) ELSE s

\* String.prototype.trim, as applied by zod .trim() and mongoose trim: true
Trim(s) == TrimEnd(TrimStart(s))

\* z.string().min(2).max(30).trim(): the length checks see the raw string,
\* the transform runs after them
categoryCreateSchema(name) ==
  IF Len(name) >= CategoryNameMin /\ Len(name) <= CategoryNameMax
  THEN [success |-> TRUE, name |-> Trim(name)]
  ELSE [success |-> FALSE, name |-> name]

\* mongoose validators of categorySchema.name (required, minLength, maxLength)
\* on the value after the trim setter
categorySchemaValid(name) ==
  /\ Trim(name) # <<>>
  /\ Len(Trim(name)) >= CategoryNameMin
  /\ Len(Trim(name)) <= CategoryNameMax

\* ------------------------------------------------------------ responses
\* NextResponse.json({error}, {status}) of a route handler; n is the count
\* that the message of an in-use refusal carries
Resp(status, error) ==
  [via |-> "rest", status |-> status, error |-> error, n |-> 0]

\* a server action: its return, or the Error(message) it throws
Returned == [via |-> "action", status |-> 200, error |-> "", n |-> 0]
Thrown(message) == [via |-> "action", status |-> 0, error |-> message, n |-> 0]

\* ---------------------------------------------------- persistence layer
Min(S) == CHOOSE x \in S : \A y \in S : x <= y

\* remove one document
Remove(f, id) == [x \in DOMAIN f \ {id} |-> f[x]]

\* add or replace one document
Put(f, id, doc) == [x \in DOMAIN f \cup {id} |-> IF x = id THEN doc ELSE f[x]]

\* Task.countDocuments({categoryId: id})
tasksWithCategory(id) ==
  Cardinality({t \in DOMAIN tasks : tasks[t].categoryId = id})

\* a lookup by name alone, the owner left out of the filter
existingCategoryAnyUser(name, userId) ==
  \E c \in DOMAIN categories : categories[c].name = name

\* Category.findOne({name, userId})
existingCategory(name, userId) ==
  \E c \in DOMAIN categories :
    categories[c].name = name /\ categories[c].userId = userId

\* Category.findOne({name, userId, _id: {$ne: id}})
duplicateCategory(name, userId, id) ==
  \E c \in DOMAIN categories :
    c # id /\ categories[c].name = name /\ categories[c].userId = userId

\* a Category collection whose compound index is not unique
NoUniqueIndex(name, userId, id) == FALSE

\* unique index {name: 1, userId: 1}: writing (name, userId) at id raises
\* E11000 when another document holds the pair
UniqueIndexViolated(name, userId, id) ==
  \E c \in DOMAIN categories :
    c # id /\ categories[c].name = name /\ categories[c].userId = userId

\* populate("categoryId", "name") over the tasks of coll in taskSet: the
\* categories they refer to, those that exist
Populated(coll, taskSet) ==
  {coll[t].categoryId : t \in taskSet} \cap DOMAIN categories

\* ------------------------------------------------------------- outcomes
\* the outcome of a handler that leaves the collections as they are: resp,
\* the task documents (items) and category documents (cats) in the body
Out(resp, items, cats) ==
  [resp |-> resp, items |-> items, cats |-> cats,
   tasks |-> tasks, taskCreator |-> taskCreator, categories |-> categories,
   freeTaskIds |-> freeTaskIds, freeCategoryIds |-> freeCategoryIds]

\* the collections become those of the outcome
CommitStore(out) ==
  /\ tasks' = out.tasks
  /\ taskCreator' = out.taskCreator
  /\ categories' = out.categories
  /\ freeTaskIds' = out.freeTaskIds
  /\ freeCategoryIds' = out.freeCategoryIds
  /\ users' = users
  /\ cached' = cached
  /\ hook' = hook

\* a request served from arrival to response with nothing in between
Commit(out) == CommitStore(out) /\ UNCHANGED inflight

\* the requests that can be between two persistence calls at one time
Requests == {"r1", "r2"}

\* a request: the handler serving it, the persistence call it makes next,
\* and the session user, params.id and parsed name it carries
Request(op, pc, caller, id, name) ==
  [op |-> op, pc |-> pc, caller |-> caller, id |-> id, name |-> name]

Idle == Request("idle", "idle", "none", Null, <<>>)

Init ==
  /\ tasks = <<>>
  /\ taskCreator = <<>>
  /\ categories = <<>>
  /\ freeTaskIds = 1..MaxTasks
  /\ freeCategoryIds = 1..MaxCategories
  /\ inflight = [r \in Requests |-> Idle]
  /\ users = <<>>
  /\ cached = NotConnected
  /\ hook = HookInitial

\* ---------------------------------------------------------- task store
\* queryFilter of the task list: userId always, the other fields when given
queryFilter(caller, status, categoryId) ==
  {t \in DOMAIN tasks :
     /\ tasks[t].userId = caller
     /\ (status # NoKey => tasks[t].status = status)
     /\ (categoryId # Absent => tasks[t].categoryId = categoryId)}

\* GET /api/tasks
TasksGET(caller, status, categoryId) ==
  IF caller = NoSession THEN Out(Resp(401, "Unauthorized"), {}, {}) ELSE
  LET found == queryFilter(caller, status, categoryId) IN
  Out(Resp(200, ""), found, Populated(tasks, found))

\* server action getTasks; its catch block replaces the message of whatever
\* was thrown, the "Unauthorized" of a missing session included
getTasks(caller, status, categoryId) ==
  IF caller = NoSession THEN Out(Thrown("Failed to fetch tasks"), {}, {}) ELSE
  LET found == queryFilter(caller, status, categoryId) IN
  Out(Returned, found, Populated(tasks, found))

\* GET /api/tasks/[id]: findById, then the owner comparison
TaskGET(caller, id) ==
  IF caller = NoSession THEN Out(Resp(401, "Unauthorized"), {}, {}) ELSE
  CASE id \notin DOMAIN tasks -> Out(Resp(404, "Task not found"), {}, {})
    [] tasks[id].userId # caller -> Out(Resp(403, "Access denied"), {}, {})
    [] OTHER -> Out(Resp(200, ""), {id}, Populated(tasks, {id}))

\* server action getTaskById
getTaskById(caller, id) ==
  IF caller = NoSession THEN Out(Thrown("Unauthorized"), {}, {}) ELSE
  CASE id \notin DOMAIN tasks -> Out(Thrown("Task not found"), {}, {})
    [] tasks[id].userId # caller -> Out(Thrown("Access denied"), {}, {})
    [] OTHER -> Out(Returned, {id}, Populated(tasks, {id}))

\* the document of Task.create({..., status, categoryId: categoryId ||
\* undefined, userId: session.user.id}); status has the schema's default
NewTask(caller, status, categoryId) ==
  [userId |-> caller,
   status |-> IF status = NoKey THEN TODO ELSE status,
   categoryId |-> IF categoryId = Absent THEN Null ELSE categoryId]

\* Task.create: the insert, under a fresh ObjectId
InsertTask(resp, doc) ==
  LET id == Min(freeTaskIds) IN
  [Out(resp, {id}, {}) EXCEPT
     !.tasks = Put(tasks, id, doc),
     !.taskCreator = Put(taskCreator, id, doc.userId),
     !.freeTaskIds = freeTaskIds \ {id}]

\* POST /api/tasks
TasksPOST(caller, status, categoryId) ==
  IF caller = NoSession THEN Out(Resp(401, "Unauthorized"), {}, {}) ELSE
  InsertTask(Resp(201, ""), NewTask(caller, status, categoryId))

\* server action createTask
createTask(caller, status, categoryId) ==
  IF caller = NoSession THEN Out(Thrown("Unauthorized"), {}, {}) ELSE
  InsertTask(Returned, NewTask(caller, status, categoryId))

\* what taskUpdateSchema.safeParse leaves of a body: z.object strips the
\* keys it does not declare
taskUpdateSchemaData(data) == [data EXCEPT !.userId = NoKey]

\* an update that writes the whole document: the fields that updateData
\* leaves out go back to what a new task has
ReplaceFields(doc, updateData) ==
  [userId |-> IF updateData.userId = NoKey
              THEN doc.userId ELSE updateData.userId,
   status |-> IF updateData.status = NoKey THEN TODO ELSE updateData.status,
   categoryId |-> IF updateData.categoryId = Absent
                  THEN Null ELSE updateData.categoryId]

\* findByIdAndUpdate(id, {$set: updateData}): the keys of updateData replace
\* the document's fields
SetFields(doc, updateData) ==
  [userId |-> IF updateData.userId = NoKey
              THEN doc.userId ELSE updateData.userId,
   status |-> IF updateData.status = NoKey
              THEN doc.status ELSE updateData.status,
   categoryId |-> IF updateData.categoryId = Absent
                  THEN doc.categoryId ELSE updateData.categoryId]

\* PATCH /api/tasks/[id]: updateData = {...result.data}
TaskPATCH(caller, id, data) ==
  IF caller = NoSession THEN Out(Resp(401, "Unauthorized"), {}, {}) ELSE
  CASE id \notin DOMAIN tasks -> Out(Resp(404, "Task not found"), {}, {})
    [] tasks[id].userId # caller -> Out(Resp(403, "Access denied"), {}, {})
    [] OTHER ->
         LET updated ==
               Put(tasks, id, SetFields(tasks[id], taskUpdateSchemaData(data)))
         IN [Out(Resp(200, ""), {id}, Populated(updated, {id}))
               EXCEPT !.tasks = updated]

\* server action updateTask: updateData = {...data}, the argument itself
updateTask(caller, id, data) ==
  IF caller = NoSession THEN Out(Thrown("Unauthorized"), {}, {}) ELSE
  CASE id \notin DOMAIN tasks -> Out(Thrown("Task not found"), {}, {})
    [] tasks[id].userId # caller -> Out(Thrown("Access denied"), {}, {})
    [] OTHER ->
         LET updated == Put(tasks, id, SetFields(tasks[id], data))
         IN [Out(Returned, {id}, Populated(updated, {id}))
               EXCEPT !.tasks = updated]

\* a delete handler that skips the owner comparison
TaskDELETEAnyOwner(caller, id) ==
  IF caller = NoSession THEN Out(Resp(401, "Unauthorized"), {}, {}) ELSE
  CASE id \notin DOMAIN tasks -> Out(Resp(404, "Task not found"), {}, {})
    [] OTHER ->
         [Out(Resp(200, ""), {}, {}) EXCEPT
            !.tasks = Remove(tasks, id),
            !.taskCreator = Remove(taskCreator, id)]

\* DELETE /api/tasks/[id]
TaskDELETE(caller, id) ==
  IF caller = NoSession THEN Out(Resp(401, "Unauthorized"), {}, {}) ELSE
  CASE id \notin DOMAIN tasks -> Out(Resp(404, "Task not found"), {}, {})
    [] tasks[id].userId # caller -> Out(Resp(403, "Access denied"), {}, {})
    [] OTHER ->
         [Out(Resp(200, ""), {}, {}) EXCEPT
            !.tasks = Remove(tasks, id),
            !.taskCreator = Remove(taskCreator, id)]

\* server action deleteTask
deleteTask(caller, id) ==
  IF caller = NoSession THEN Out(Thrown("Unauthorized"), {}, {}) ELSE
  CASE id \notin DOMAIN tasks -> Out(Thrown("Task not found"), {}, {})
    [] tasks[id].userId # caller -> Out(Thrown("Access denied"), {}, {})
    [] OTHER ->
         [Out(Returned, {}, {}) EXCEPT
            !.tasks = Remove(tasks, id),
            !.taskCreator = Remove(taskCreator, id)]

\* ------------------------------------------------------ category store
OwnCategories(caller) ==
  {c \in DOMAIN categories : categories[c].userId = caller}

\* GET /api/categories
CategoriesGET(caller) ==
  IF caller = NoSession THEN Out(Resp(401, "Unauthorized"), {}, {}) ELSE
  Out(Resp(200, ""), {}, OwnCategories(caller))

\* server action getCategories
getCategories(caller) ==
  IF caller = NoSession THEN Out(Thrown("Unauthorized"), {}, {}) ELSE
  Out(Returned, {}, OwnCategories(caller))

\* GET /api/categories/[id]: findById, then the owner comparison
CategoryGET(caller, id) ==
  IF caller = NoSession THEN Out(Resp(401, "Unauthorized"), {}, {}) ELSE
  CASE id \notin DOMAIN categories ->
         Out(Resp(404, "Category not found"), {}, {})
    [] categories[id].userId # caller ->
         Out(Resp(403, "Access denied"), {}, {})
    [] OTHER -> Out(Resp(200, ""), {}, {id})

\* GET of the second by-id route: findOne({_id, userId})
CategoryGETScoped(caller, id) ==
  IF caller = NoSession THEN Out(Resp(401, "Unauthorized"), {}, {}) ELSE
  IF id \in OwnCategories(caller)
  THEN Out(Resp(200, ""), {}, {id})
  ELSE Out(Resp(404, "Category not found"), {}, {})

\* server action getCategoryById: findOne({_id, userId})
getCategoryById(caller, id) ==
  IF caller = NoSession THEN Out(Thrown("Unauthorized"), {}, {}) ELSE
  IF id \in OwnCategories(caller)
  THEN Out(Returned, {}, {id})
  ELSE Out(Thrown("Category not found"), {}, {})

\* Category.create({name, userId}): document validation, then the insert
\* under the unique index; resp is the handler's success response, failed
\* what its catch block answers
InsertCategory(resp, failed, name, userId) ==
  IF \/ ~categorySchemaValid(name)
     \/ UniqueIndexViolated(Trim(name), userId, Null)
  THEN Out(failed, {}, {})
  ELSE LET id == Min(freeCategoryIds) IN
       [Out(resp, {}, {id}) EXCEPT
          !.categories =
             Put(categories, id, [name |-> Trim(name), userId |-> userId]),
          !.freeCategoryIds = freeCategoryIds \ {id}]

\* POST /api/categories
CategoriesPOST(caller, name) ==
  IF caller = NoSession THEN Out(Resp(401, "Unauthorized"), {}, {}) ELSE
  LET result == categoryCreateSchema(name) IN
  CASE ~result.success -> Out(Resp(400, "Invalid input"), {}, {})
    [] existingCategory(result.name, caller) ->
         Out(Resp(409, "Category with this name already exists"), {}, {})
    [] OTHER ->
         InsertCategory(Resp(201, ""), Resp(500, "Failed to create category"),
                        result.name, caller)

\* server action createCategory
createCategory(caller, name) ==
  IF caller = NoSession THEN Out(Thrown("Unauthorized"), {}, {}) ELSE
  LET result == categoryCreateSchema(name) IN
  CASE ~result.success -> Out(Thrown("fieldErrors"), {}, {})
    [] existingCategory(result.name, caller) ->
         Out(Thrown("Category with this name already exists"), {}, {})
    [] OTHER ->
         InsertCategory(Returned, Thrown("Category validation failed"),
                        result.name, caller)

\* findByIdAndUpdate / findOneAndUpdate of the name of the caller's category
\* id: the trim setter runs on the update, update validators when
\* runValidators is set, and the unique index guards the write
UpdateCategoryName(resp, failed, id, name, runValidators) ==
  IF \/ (runValidators /\ ~categorySchemaValid(name))
     \/ UniqueIndexViolated(Trim(name), categories[id].userId, id)
  THEN Out(failed, {}, {})
  ELSE [Out(resp, {}, {id}) EXCEPT
          !.categories =
             Put(categories, id, [categories[id] EXCEPT !.name = Trim(name)])]

\* PATCH /api/categories/[id]
CategoryPATCH(caller, id, name) ==
  IF caller = NoSession THEN Out(Resp(401, "Unauthorized"), {}, {}) ELSE
  LET result == categoryCreateSchema(name) IN
  CASE ~result.success -> Out(Resp(400, "Invalid input"), {}, {})
    [] id \notin DOMAIN categories ->
         Out(Resp(404, "Category not found"), {}, {})
    [] categories[id].userId # caller ->
         Out(Resp(403, "Access denied"), {}, {})
    [] duplicateCategory(result.name, caller, id) ->
         Out(Resp(409, "Category with this name already exists"), {}, {})
    [] OTHER ->
         UpdateCategoryName(Resp(200, ""),
                            Resp(500, "Failed to update category"),
                            id, result.name, TRUE)

\* PATCH of the second by-id route: findOneAndUpdate({_id, userId},
\* {name: body.name}), no duplicate lookup, no validators
CategoryPATCHScoped(caller, id, name) ==
  IF caller = NoSession THEN Out(Resp(401, "Unauthorized"), {}, {}) ELSE
  CASE name = <<>> -> Out(Resp(400, "Invalid category name"), {}, {})
    [] id \notin OwnCategories(caller) ->
         Out(Resp(404, "Category not found"), {}, {})
    [] OTHER ->
         UpdateCategoryName(Resp(200, ""), Resp(500, "Internal Server Error"),
                            id, name, FALSE)

\* server action updateCategory: the duplicate lookup comes first, then
\* findOneAndUpdate({_id, userId}, {name}) without validators
updateCategory(caller, id, name) ==
  IF caller = NoSession THEN Out(Thrown("Unauthorized"), {}, {}) ELSE
  LET result == categoryCreateSchema(name) IN
  CASE ~result.success -> Out(Thrown("fieldErrors"), {}, {})
    [] duplicateCategory(result.name, caller, id) ->
         Out(Thrown("Category with this name already exists"), {}, {})
    [] id \notin OwnCategories(caller) ->
         Out(Thrown("Category not found"), {}, {})
    [] OTHER ->
         UpdateCategoryName(Returned, Thrown("E11000 duplicate key error"),
                            id, result.name, FALSE)

\* DELETE /api/categories/[id]: owner check, then the count of referencing
\* tasks, then findByIdAndDelete; n is the count the message carries
CategoryDELETE(caller, id) ==
  IF caller = NoSession THEN Out(Resp(401, "Unauthorized"), {}, {}) ELSE
  CASE id \notin DOMAIN categories ->
         Out(Resp(404, "Category not found"), {}, {})
    [] categories[id].userId # caller ->
         Out(Resp(403, "Access denied"), {}, {})
    [] tasksWithCategory(id) > 0 ->
         Out([Resp(400, "Cannot delete category") EXCEPT
                !.n = tasksWithCategory(id)], {}, {})
    [] OTHER ->
         [Out(Resp(200, ""), {}, {}) EXCEPT
            !.categories = Remove(categories, id)]

\* DELETE of the second by-id route: findOneAndDelete({_id, userId})
CategoryDELETEScoped(caller, id) ==
  IF caller = NoSession THEN Out(Resp(401, "Unauthorized"), {}, {}) ELSE
  IF id \in OwnCategories(caller)
  THEN [Out(Resp(204, ""), {}, {}) EXCEPT
          !.categories = Remove(categories, id)]
  ELSE Out(Resp(404, "Category not found"), {}, {})

\* server action deleteCategory: findOneAndDelete({_id, userId})
deleteCategory(caller, id) ==
  IF caller = NoSession THEN Out(Thrown("Unauthorized"), {}, {}) ELSE
  IF id \in OwnCategories(caller)
  THEN [Out(Returned, {}, {}) EXCEPT !.categories = Remove(categories, id)]
  ELSE Out(Thrown("Category not found"), {}, {})

\* ------------------------------------------------------ specifications
TaskIds == 1..MaxTasks
CategoryIds == 1..MaxCategories
CatalogIds == 1..MaxCatalog

StatusParams == StatusInputs \cup {NoKey}

\* update payloads: the empty one and those of one key among status,
\* categoryId (an id or null) and userId
UpdatePayloads(ids) ==
  LET none == [status |-> NoKey, categoryId |-> Absent, userId |-> NoKey] IN
  {none}
    \cup {[none EXCEPT !.status = s] : s \in StatusInputs}
    \cup {[none EXCEPT !.categoryId = c] : c \in ids \cup {Null}}
    \cup {[none EXCEPT !.userId = u] : u \in Users}

TaskRequest ==
  \/ \E u \in Users, s \in StatusParams, c \in CategoryIds \cup {Absent} :
       Commit(TasksGET(u, s, c))
  \/ \E u \in Users, s \in StatusParams, c \in CategoryIds \cup {Absent} :
       Commit(getTasks(u, s, c))
  \/ \E u \in Users, t \in TaskIds : Commit(TaskGET(u, t))
  \/ \E u \in Users, t \in TaskIds : Commit(getTaskById(u, t))
  \/ \E u \in Users, s \in StatusParams, c \in CategoryIds \cup {Null, Absent} :
       freeTaskIds # {} /\ Commit(TasksPOST(u, s, c))
  \/ \E u \in Users, s \in StatusParams, c \in CategoryIds \cup {Null, Absent} :
       freeTaskIds # {} /\ Commit(createTask(u, s, c))
  \/ \E u \in Users, t \in TaskIds, d \in UpdatePayloads(CategoryIds) :
       Commit(TaskPATCH(u, t, d))
  \/ \E u \in Users, t \in TaskIds, d \in UpdatePayloads(CategoryIds) :
       Commit(updateTask(u, t, d))
  \/ \E u \in Users, t \in TaskIds : Commit(TaskDELETE(u, t))
  \/ \E u \in Users, t \in TaskIds : Commit(deleteTask(u, t))

CategoryRequest(ids) ==
  \/ \E u \in Users : Commit(CategoriesGET(u))
  \/ \E u \in Users : Commit(getCategories(u))
  \/ \E u \in Users, c \in ids : Commit(CategoryGET(u, c))
  \/ \E u \in Users, c \in ids : Commit(CategoryGETScoped(u, c))
  \/ \E u \in Users, c \in ids : Commit(getCategoryById(u, c))
  \/ \E u \in Users, n \in NameInputs :
       freeCategoryIds # {} /\ Commit(CategoriesPOST(u, n))
  \/ \E u \in Users, n \in NameInputs :
       freeCategoryIds # {} /\ Commit(createCategory(u, n))
  \/ \E u \in Users, c \in ids, n \in NameInputs :
       Commit(CategoryPATCH(u, c, n))
  \/ \E u \in Users, c \in ids, n \in NameInputs :
       Commit(CategoryPATCHScoped(u, c, n))
  \/ \E u \in Users, c \in ids, n \in NameInputs :
       Commit(updateCategory(u, c, n))
  \/ \E u \in Users, c \in ids : Commit(CategoryDELETE(u, c))
  \/ \E u \in Users, c \in ids : Commit(CategoryDELETEScoped(u, c))
  \/ \E u \in Users, c \in ids : Commit(deleteCategory(u, c))

\* the handlers invoked without a session
NoSessionRequest ==
  \E o \in {TasksGET(NoSession, NoKey, Absent), getTasks(NoSession, NoKey, Absent),
            TasksPOST(NoSession, NoKey, Absent),
            createTask(NoSession, NoKey, Absent),
            CategoriesGET(NoSession), getCategories(NoSession)}
           \cup UNION {{TaskGET(NoSession, t), getTaskById(NoSession, t),
                        TaskDELETE(NoSession, t), deleteTask(NoSession, t)}
                         \cup {TaskPATCH(NoSession, t, d) :
                                 d \in UpdatePayloads(CategoryIds)}
                         \cup {updateTask(NoSession, t, d) :
                                 d \in UpdatePayloads(CategoryIds)} :
                       t \in TaskIds}
           \cup UNION {{CategoryGET(NoSession, c),
                        CategoryGETScoped(NoSession, c),
                        getCategoryById(NoSession, c),
                        CategoryDELETE(NoSession, c),
                        CategoryDELETEScoped(NoSession, c),
                        deleteCategory(NoSession, c)} : c \in CategoryIds}
           \cup UNION {{CategoriesPOST(NoSession, n),
                        createCategory(NoSession, n)}
                         \cup {CategoryPATCH(NoSession, c, n) : c \in CategoryIds}
                         \cup {CategoryPATCHScoped(NoSession, c, n) :
                                 c \in CategoryIds}
                         \cup {updateCategory(NoSession, c, n) :
                                 c \in CategoryIds} :
                       n \in NameInputs} :
    Commit(o)

Next == TaskRequest \/ CategoryRequest(CategoryIds) \/ NoSessionRequest

Spec == Init /\ [][Next]_vars

\* the category handlers alone, over a larger supply of ObjectIds
InitCat ==
  /\ tasks = <<>>
  /\ taskCreator = <<>>
  /\ categories = <<>>
  /\ freeTaskIds = {}
  /\ freeCategoryIds = CatalogIds
  /\ inflight = [r \in Requests |-> Idle]
  /\ users = <<>>
  /\ cached = NotConnected
  /\ hook = HookInitial

NextCat == CategoryRequest(CatalogIds)

SpecCat == InitCat /\ [][NextCat]_vars

\* --------------------------------------------- interleaved category writes
ConcIds == 1..MaxConcCatalog
ConcNameInputs == { <<"a", "b">>, <<" ", "a", "b">>, <<"c", "d">> }

InitConc ==
  /\ tasks = <<>>
  /\ taskCreator = <<>>
  /\ categories = <<>>
  /\ freeTaskIds = {}
  /\ freeCategoryIds = ConcIds
  /\ inflight = [r \in Requests |-> Idle]
  /\ users = <<>>
  /\ cached = NotConnected
  /\ hook = HookInitial

\* the request awaits its next persistence call / has been answered
Await(r, req) == inflight' = [inflight EXCEPT ![r] = req]
Answered(r) == inflight' = [inflight EXCEPT ![r] = Idle]

\* POST /api/categories up to the answer of Category.findOne: a body that
\* fails the schema or names an existing category is answered at once
CategoriesPOSTFindOne(r, caller, name) ==
  LET result == categoryCreateSchema(name) IN
  /\ inflight[r] = Idle
  /\ IF result.success /\ ~existingCategory(result.name, caller)
     THEN Await(r, Request("CategoriesPOST", "create", caller, Null,
                           result.name))
     ELSE UNCHANGED inflight
  /\ UNCHANGED store

\* POST /api/categories from Category.create on
CategoriesPOSTCreate(r) ==
  /\ inflight[r].op = "CategoriesPOST"
  /\ freeCategoryIds # {}
  /\ CommitStore(InsertCategory(Resp(201, ""),
                                Resp(500, "Failed to create category"),
                                inflight[r].name, inflight[r].caller))
  /\ Answered(r)

\* createCategory up to the answer of Category.findOne
createCategoryFindOne(r, caller, name) ==
  LET result == categoryCreateSchema(name) IN
  /\ inflight[r] = Idle
  /\ IF result.success /\ ~existingCategory(result.name, caller)
     THEN Await(r, Request("createCategory", "create", caller, Null,
                           result.name))
     ELSE UNCHANGED inflight
  /\ UNCHANGED store

\* createCategory from Category.create on
createCategoryCreate(r) ==
  /\ inflight[r].op = "createCategory"
  /\ freeCategoryIds # {}
  /\ CommitStore(InsertCategory(Returned,
                                Thrown("E11000 duplicate key error"),
                                inflight[r].name, inflight[r].caller))
  /\ Answered(r)

\* PATCH /api/categories/[id] up to the answer of Category.findById
CategoryPATCHFindById(r, caller, id, name) ==
  LET result == categoryCreateSchema(name) IN
  /\ inflight[r] = Idle
  /\ IF result.success /\ id \in OwnCategories(caller)
     THEN Await(r, Request("CategoryPATCH", "findOne", caller, id,
                           result.name))
     ELSE UNCHANGED inflight
  /\ UNCHANGED store

\* PATCH /api/categories/[id]: the duplicate lookup
CategoryPATCHFindOne(r) ==
  /\ inflight[r].op = "CategoryPATCH"
  /\ inflight[r].pc = "findOne"
  /\ IF duplicateCategory(inflight[r].name, inflight[r].caller, inflight[r].id)
     THEN Answered(r)
     ELSE Await(r, [inflight[r] EXCEPT !.pc = "update"])
  /\ UNCHANGED store

\* PATCH /api/categories/[id]: findByIdAndUpdate; a category that is gone
\* by now gives null, nothing is written
CategoryPATCHUpdate(r) ==
  /\ inflight[r].op = "CategoryPATCH"
  /\ inflight[r].pc = "update"
  /\ IF inflight[r].id \in DOMAIN categories
     THEN CommitStore(UpdateCategoryName(
                        Resp(200, ""), Resp(500, "Failed to update category"),
                        inflight[r].id, inflight[r].name, TRUE))
     ELSE UNCHANGED store
  /\ Answered(r)

\* updateCategory up to the answer of the duplicate lookup
updateCategoryFindOne(r, caller, id, name) ==
  LET result == categoryCreateSchema(name) IN
  /\ inflight[r] = Idle
  /\ IF result.success /\ ~duplicateCategory(result.name, caller, id)
     THEN Await(r, Request("updateCategory", "update", caller, id,
                           result.name))
     ELSE UNCHANGED inflight
  /\ UNCHANGED store

\* updateCategory: findOneAndUpdate({_id, userId}, {name})
updateCategoryUpdate(r) ==
  /\ inflight[r].op = "updateCategory"
  /\ IF inflight[r].id \in OwnCategories(inflight[r].caller)
     THEN CommitStore(UpdateCategoryName(
                        Returned, Thrown("E11000 duplicate key error"),
                        inflight[r].id, inflight[r].name, FALSE))
     ELSE UNCHANGED store
  /\ Answered(r)

NextConc ==
  \/ \E r \in Requests, u \in Users, n \in ConcNameInputs :
       CategoriesPOSTFindOne(r, u, n)
  \/ \E r \in Requests : CategoriesPOSTCreate(r)
  \/ \E r \in Requests, u \in Users, n \in ConcNameInputs :
       createCategoryFindOne(r, u, n)
  \/ \E r \in Requests : createCategoryCreate(r)
  \/ \E r \in Requests, u \in Users, c \in ConcIds, n \in ConcNameInputs :
       CategoryPATCHFindById(r, u, c, n)
  \/ \E r \in Requests : CategoryPATCHFindOne(r)
  \/ \E r \in Requests : CategoryPATCHUpdate(r)
  \/ \E r \in Requests, u \in Users, c \in ConcIds, n \in ConcNameInputs :
       updateCategoryFindOne(r, u, c, n)
  \/ \E r \in Requests : updateCategoryUpdate(r)
  \/ \E u \in Users, c \in ConcIds, n \in ConcNameInputs :
       Commit(CategoryPATCHScoped(u, c, n))
  \/ \E u \in Users, c \in ConcIds : Commit(CategoryDELETEScoped(u, c))
  \/ \E u \in Users, c \in ConcIds : Commit(deleteCategory(u, c))

SpecConc == InitConc /\ [][NextConc]_vars

\* ------------------------------------------- task documents, every field
\* enum TaskPriority
LOW == "LOW"
MEDIUM == "MEDIUM"
HIGH == "HIGH"
PriorityInputs == {LOW, MEDIUM, HIGH}
IN_PROGRESS == "IN_PROGRESS"
TaskStatusValues == {TODO, IN_PROGRESS, COMPLETED}

TitleMin == 3
TitleMax == 100
DescriptionMax == 1000

\* a text key that the body does not carry, and one that carries JSON null
NoText == <<"<absent>">>
NullText == <<"<null>">>
\* a dueDate key that carries JSON null
NullDate == "<null>"

\* new Date(string): the instant, or NaN (Invalid Date) when the string does
\* not parse; instants are numbered
InvalidDate == -1
DateParse(str) ==
  CASE str = "2024-01-15" -> 1
    [] str = "2024-01-15T00:00:00.000Z" -> 1
    [] str = "2024-02-01T09:30:00.000Z" -> 2
    [] OTHER -> InvalidDate

\* Date.prototype.toJSON of a stored instant
DateToJSON(instant) ==
  CASE instant = 1 -> "2024-01-15T00:00:00.000Z"
    [] instant = 2 -> "2024-02-01T09:30:00.000Z"
    [] OTHER -> NullDate

\* a request body: every key of the task schemas, given or not
TaskBody(title, description, status, priority, dueDate, categoryId) ==
  [title |-> title, description |-> description, status |-> status,
   priority |-> priority, dueDate |-> dueDate, categoryId |-> categoryId,
   userId |-> NoKey]

\* the fields that taskCreateSchema rejects: title is required, description
\* may be left out but not null, the enums may be left out, dueDate and
\* categoryId take any string or null. Lengths are those of the raw strings.
taskCreateSchemaErrors(body) ==
  {f \in {"title"} :
     \/ body.title \in {NoText, NullText}
     \/ Len(body.title) < TitleMin \/ Len(body.title) > TitleMax}
    \cup {f \in {"description"} :
            /\ body.description # NoText
            /\ (body.description = NullText
                  \/ Len(body.description) > DescriptionMax)}
    \cup {f \in {"status"} : body.status \notin TaskStatusValues \cup {NoKey}}
    \cup {f \in {"priority"} : body.priority \notin PriorityInputs \cup {NoKey}}

\* result.data of taskCreateSchema.safeParse: the defaults are filled in
taskCreateSchemaData(body) ==
  [body EXCEPT !.status = IF @ = NoKey THEN TODO ELSE @,
               !.priority = IF @ = NoKey THEN MEDIUM ELSE @,
               !.userId = NoKey]

\* the schema that the Task model of a server process has: models.Task ||
\* mongoose.model("Task", taskSchema) keeps the schema registered first, the
\* one of models/task.model.ts when that module was loaded before the first
\* dbConnect() of the process and the one of createModels in lib/db/connect.ts
\* (no trim, no validators, no defaults) otherwise
TaskSchemas == {"task.model", "connect"}

\* the setter of a String path of the schema: trim: true, or none
SetText(schema, text) ==
  IF schema = "task.model" /\ text \notin {NoText, NullText}
  THEN Trim(text) ELSE text

\* a create that does not pass the due date on to the document
TaskDocumentNoDueDate(schema, data, userId) ==
  [title |-> SetText(schema, data.title),
   description |-> SetText(schema, data.description),
   status |-> data.status,
   priority |-> data.priority,
   dueDate |-> Null,
   categoryId |-> IF data.categoryId = Absent THEN Null ELSE data.categoryId,
   userId |-> userId]

\* the document Task.create is given, after the casts of taskSchema: trim on
\* title and description, dueDate ? new Date(dueDate) : undefined,
\* categoryId || undefined
TaskDocument(schema, data, userId) ==
  [title |-> SetText(schema, data.title),
   description |-> SetText(schema, data.description),
   status |-> data.status,
   priority |-> data.priority,
   dueDate |-> IF data.dueDate \in {NoKey, NullDate, ""}
               THEN Null ELSE DateParse(data.dueDate),
   categoryId |-> IF data.categoryId = Absent THEN Null ELSE data.categoryId,
   userId |-> userId]

\* the validators of the schema on a document (for taskSchema: required,
\* minLength, maxLength, enum) and the cast of dueDate to Date
taskSchemaValid(schema, doc) ==
  /\ doc.dueDate # InvalidDate
  /\ schema = "task.model" =>
       /\ doc.title \notin {NoText, NullText}
       /\ Len(doc.title) >= TitleMin /\ Len(doc.title) <= TitleMax
       /\ (doc.description \notin {NoText, NullText}
             => Len(doc.description) <= DescriptionMax)
       /\ doc.status \in TaskStatusValues
       /\ doc.priority \in PriorityInputs

\* POST /api/tasks with every field of the body
TasksPOSTBody(schema, caller, body) ==
  IF caller = NoSession THEN Out(Resp(401, "Unauthorized"), {}, {}) ELSE
  LET doc == TaskDocument(schema, taskCreateSchemaData(body), caller) IN
  CASE taskCreateSchemaErrors(body) # {} ->
         Out(Resp(400, "Invalid input"), {}, {})
    [] ~taskSchemaValid(schema, doc) -> Out(Resp(500, "Failed to create task"), {}, {})
    [] OTHER -> InsertTask(Resp(201, ""), doc)

\* server action createTask with every field of the data
createTaskData(schema, caller, data) ==
  IF caller = NoSession THEN Out(Thrown("Unauthorized"), {}, {}) ELSE
  LET doc == TaskDocument(schema, taskCreateSchemaData(data), caller) IN
  CASE taskCreateSchemaErrors(data) # {} -> Out(Thrown("fieldErrors"), {}, {})
    [] ~taskSchemaValid(schema, doc) -> Out(Thrown("Task validation failed"), {}, {})
    [] OTHER -> InsertTask(Returned, doc)

\* the task of a GET /api/tasks/[id] or getTaskById response: the document's
\* fields, the date as JSON, the populated category or null
formattedTask(doc) ==
  [title |-> doc.title,
   description |-> doc.description,
   status |-> doc.status,
   priority |-> doc.priority,
   dueDate |-> DateToJSON(doc.dueDate),
   category |-> IF doc.categoryId \in DOMAIN categories
                THEN doc.categoryId ELSE Null]

\* the fields that taskUpdateSchema rejects: every key may be left out,
\* description, dueDate and categoryId may be null, title may not
taskUpdateSchemaErrors(body) ==
  {f \in {"title"} :
     /\ body.title # NoText
     /\ (body.title = NullText
           \/ Len(body.title) < TitleMin \/ Len(body.title) > TitleMax)}
    \cup {f \in {"description"} :
            /\ body.description \notin {NoText, NullText}
            /\ Len(body.description) > DescriptionMax}
    \cup {f \in {"status"} : body.status \notin TaskStatusValues \cup {NoKey}}
    \cup {f \in {"priority"} : body.priority \notin PriorityInputs \cup {NoKey}}

\* an update that replaces the document by the payload: the keys that are
\* not given fall back to none or to the schema's defaults
ReplaceDocument(schema, doc, updateData) ==
  [title |-> IF updateData.title = NoText THEN doc.title
             ELSE SetText(schema, updateData.title),
   description |-> SetText(schema, updateData.description),
   status |-> IF updateData.status = NoKey THEN TODO ELSE updateData.status,
   priority |-> IF updateData.priority = NoKey
                THEN MEDIUM ELSE updateData.priority,
   dueDate |-> IF updateData.dueDate \in {NoKey, NullDate, ""}
               THEN Null ELSE DateParse(updateData.dueDate),
   categoryId |-> IF updateData.categoryId = Absent
                  THEN Null ELSE updateData.categoryId,
   userId |-> doc.userId]

\* findByIdAndUpdate(id, {$set: updateData}) on a document with every field:
\* the keys that are given replace the document's values, after the casts of
\* the schema (trim; a date string, "" or null to Date or null)
UpdateDocument(schema, doc, updateData) ==
  [title |-> IF updateData.title = NoText THEN doc.title
             ELSE SetText(schema, updateData.title),
   description |-> IF updateData.description = NoText THEN doc.description
                   ELSE SetText(schema, updateData.description),
   status |-> IF updateData.status = NoKey
              THEN doc.status ELSE updateData.status,
   priority |-> IF updateData.priority = NoKey
                THEN doc.priority ELSE updateData.priority,
   dueDate |-> CASE updateData.dueDate = NoKey -> doc.dueDate
                 [] updateData.dueDate \in {NullDate, ""} -> Null
                 [] OTHER -> DateParse(updateData.dueDate),
   categoryId |-> IF updateData.categoryId = Absent
                  THEN doc.categoryId ELSE updateData.categoryId,
   userId |-> IF updateData.userId = NoKey
              THEN doc.userId ELSE updateData.userId]

\* PATCH /api/tasks/[id] with every field of the body
TaskPATCHBody(schema, caller, id, body) ==
  IF caller = NoSession THEN Out(Resp(401, "Unauthorized"), {}, {}) ELSE
  CASE taskUpdateSchemaErrors(body) # {} ->
         Out(Resp(400, "Invalid input"), {}, {})
    [] id \notin DOMAIN tasks -> Out(Resp(404, "Task not found"), {}, {})
    [] tasks[id].userId # caller -> Out(Resp(403, "Access denied"), {}, {})
    [] ~taskSchemaValid(schema, UpdateDocument(schema, tasks[id],
                                               taskUpdateSchemaData(body)))
         -> Out(Resp(500, "Failed to update task"), {}, {})
    [] OTHER ->
         LET updated ==
               Put(tasks, id,
                   UpdateDocument(schema, tasks[id],
                                  taskUpdateSchemaData(body)))
         IN [Out(Resp(200, ""), {id}, Populated(updated, {id}))
               EXCEPT !.tasks = updated]

\* server action updateTask with every field of the data
updateTaskData(schema, caller, id, data) ==
  IF caller = NoSession THEN Out(Thrown("Unauthorized"), {}, {}) ELSE
  CASE taskUpdateSchemaErrors(data) # {} -> Out(Thrown("fieldErrors"), {}, {})
    [] id \notin DOMAIN tasks -> Out(Thrown("Task not found"), {}, {})
    [] tasks[id].userId # caller -> Out(Thrown("Access denied"), {}, {})
    [] ~taskSchemaValid(schema, UpdateDocument(schema, tasks[id], data))
         -> Out(Thrown("Validation failed"), {}, {})
    [] OTHER ->
         LET updated ==
               Put(tasks, id, UpdateDocument(schema, tasks[id], data))
         IN [Out(Returned, {id}, Populated(updated, {id}))
               EXCEPT !.tasks = updated]

\* new ApiError(status, message) thrown by the apiClient wrappers
ApiError(status, message) ==
  [via |-> "client", status |-> status, error |-> message, n |-> 0]

\* a method of apiClient around the outcome of its server action: what the
\* action throws becomes ApiError(500, error.message)
apiClient(out) ==
  IF out.resp = Returned THEN out
  ELSE [out EXCEPT !.resp = ApiError(500, out.resp.error)]

\* what the category page tells its user about an ApiError of apiClient: it
\* reads err.status (409 on save, 400 on delete) and nothing else
pageErrorKind(err) ==
  CASE err.status = 409 -> "DuplicateName"
    [] err.status = 400 -> "ConflictInUse"
    [] OTHER -> "PersistenceFailure"

\* apiClient.updateTask: the keys that are not undefined go to updateTask
apiClientUpdateTask(schema, caller, id, data) ==
  apiClient(updateTaskData(schema, caller, id, data))

\* requests that carry every field, one user, over their own ObjectIds
MaxRecords == 2
MaxRecordCategories == 1
RecordIds == 1..MaxRecords
RecordCategoryIds == 1..MaxRecordCategories
RecordUsers == {"u1"}

\* create bodies: one with only the title, that body with one key changed,
\* and one with every key given
CreateBodies ==
  LET base == TaskBody(<<"a", "b", "c">>, NoText, NoKey, NoKey, NoKey, Absent)
  IN {base,
      TaskBody(<<" ", "x", "y", "z">>, <<"d", " ">>, COMPLETED, HIGH,
               "2024-01-15", Min(RecordCategoryIds))}
       \cup {[base EXCEPT !.title = t] :
               t \in {<<"a", "b">>, <<" ", "a", "b">>, NoText}}
       \cup {[base EXCEPT !.description = d] : d \in {NullText}}
       \cup {[base EXCEPT !.status = v] : v \in {TODO, "DONE"}}
       \cup {[base EXCEPT !.priority = v] : v \in {MEDIUM, "URGENT"}}
       \cup {[base EXCEPT !.dueDate = v] :
               v \in {"2024-01-15T00:00:00.000Z", NullDate, "", "tomorrow"}}
       \cup {[base EXCEPT !.categoryId = c] : c \in {Null}}

\* update bodies: the empty one, those of one key, and one of two keys
UpdateBodies ==
  LET none == TaskBody(NoText, NoText, NoKey, NoKey, NoKey, Absent) IN
  {none, [none EXCEPT !.status = COMPLETED, !.priority = HIGH]}
    \cup {[none EXCEPT !.title = t] : t \in {<<" ", "x", "y", "z">>, NullText}}
    \cup {[none EXCEPT !.description = d] : d \in {NullText}}
    \cup {[none EXCEPT !.status = v] : v \in {COMPLETED, "DONE"}}
    \cup {[none EXCEPT !.priority = v] : v \in {"URGENT"}}
    \cup {[none EXCEPT !.dueDate = v] : v \in {NullDate, "tomorrow"}}
    \cup {[none EXCEPT !.categoryId = c] : c \in {Null}}

InitRecord ==
  /\ tasks = <<>>
  /\ taskCreator = <<>>
  /\ categories = <<>>
  /\ freeTaskIds = RecordIds
  /\ freeCategoryIds = RecordCategoryIds
  /\ inflight = [r \in Requests |-> Idle]
  /\ users = <<>>
  /\ cached = NotConnected
  /\ hook = HookInitial

NextRecord ==
  \/ \E sc \in TaskSchemas, u \in RecordUsers, body \in CreateBodies :
       freeTaskIds # {} /\ Commit(TasksPOSTBody(sc, u, body))
  \/ \E sc \in TaskSchemas, u \in RecordUsers, data \in CreateBodies :
       freeTaskIds # {} /\ Commit(createTaskData(sc, u, data))
  \/ \E u \in RecordUsers, t \in RecordIds : Commit(TaskGET(u, t))
  \/ \E u \in RecordUsers, t \in RecordIds : Commit(getTaskById(u, t))
  \/ \E sc \in TaskSchemas, u \in RecordUsers, t \in RecordIds,
        body \in UpdateBodies :
       Commit(TaskPATCHBody(sc, u, t, body))
  \/ \E sc \in TaskSchemas, u \in RecordUsers, t \in RecordIds,
        data \in UpdateBodies :
       Commit(updateTaskData(sc, u, t, data))
  \/ \E sc \in TaskSchemas, u \in RecordUsers, t \in RecordIds,
        data \in UpdateBodies :
       Commit(apiClientUpdateTask(sc, u, t, data))
  \/ \E u \in RecordUsers :
       freeCategoryIds # {} /\ Commit(CategoriesPOST(u, <<"a", "b">>))

SpecRecord == InitRecord /\ [][NextRecord]_vars

\* ------------------------------------------- task list, every parameter
\* searchParams.get("page") || "1" and searchParams.get("limit") || "10"
DefaultPage == 1
DefaultLimit == 10

\* the letters that toLowerCase and the "i" option of $regex fold
UpperCase == <<"A", "B", "C", "X">>
LowerCase == <<"a", "b", "c", "x">>
Lower(ch) ==
  IF \E i \in 1..Len(UpperCase) : UpperCase[i] = ch
  THEN LowerCase[CHOOSE i \in 1..Len(UpperCase) : UpperCase[i] = ch]
  ELSE ch

\* {field: {$regex: pattern, $options: "i"}}: the pattern is a regular
\* expression, matched anywhere in the field; of the metacharacters "."
\* (any character) is modelled, every other character stands for itself
RegexMatch(pattern, text) ==
  /\ text \notin {NoText, NullText}
  /\ \E at \in 1..(Len(text) - Len(pattern) + 1) :
       \A i \in 1..Len(pattern) :
         \/ pattern[i] = "."
         \/ Lower(pattern[i]) = Lower(text[at + i - 1])

\* text.toLowerCase().includes(search.toLowerCase())
Includes(text, search) ==
  /\ text \notin {NoText, NullText}
  /\ \E at \in 1..(Len(text) - Len(search) + 1) :
       \A i \in 1..Len(search) : Lower(search[i]) = Lower(text[at + i - 1])

\* the parameters of a list request; "" and a missing parameter are alike
Query(status, priority, categoryId, search, page, limit) ==
  [status |-> status, priority |-> priority, categoryId |-> categoryId,
   search |-> search, page |-> page, limit |-> limit]

\* a queryFilter that leaves the priority parameter out
queryFilterNoPriority(caller, query) ==
  {t \in DOMAIN tasks :
     /\ tasks[t].userId = caller
     /\ (query.status \notin {NoKey, ""} => tasks[t].status = query.status)
     /\ (query.categoryId # Absent => tasks[t].categoryId = query.categoryId)
     /\ (query.search \notin {NoText, <<>>} =>
           \/ RegexMatch(query.search, tasks[t].title)
           \/ RegexMatch(query.search, tasks[t].description))}

\* queryFilter with status, priority, categoryId and search
queryFilterOf(caller, query) ==
  {t \in DOMAIN tasks :
     /\ tasks[t].userId = caller
     /\ (query.status \notin {NoKey, ""} => tasks[t].status = query.status)
     /\ (query.priority \notin {NoKey, ""} =>
           tasks[t].priority = query.priority)
     /\ (query.categoryId # Absent => tasks[t].categoryId = query.categoryId)
     /\ (query.search \notin {NoText, <<>>} =>
           \/ RegexMatch(query.search, tasks[t].title)
           \/ RegexMatch(query.search, tasks[t].description))}

\* a skip that counts pages from zero
skipFromPageZero(page, limit) == page * limit

\* const skip = (page - 1) * limit
skip(page, limit) == (page - 1) * limit

\* find(queryFilter).sort({createdAt: -1}).skip(skip).limit(limit): the
\* documents are in order of creation, the latest first
FindPage(found, page, limit) ==
  {t \in found :
     LET before == Cardinality({x \in found : x > t}) IN
     /\ before >= skip(page, limit)
     /\ before < skip(page, limit) + limit}

\* Math.ceil(total / limit), limit at least 1
Ceil(total, limit) == (total + limit - 1) \div limit

\* the body of a list response: the outcome and its pagination object
Listed(resp, found, page, limit) ==
  [pagination |-> [total |-> Cardinality(found), page |-> page,
                   limit |-> limit,
                   totalPages |-> Ceil(Cardinality(found), limit)]]
    @@ Out(resp, FindPage(found, page, limit),
           Populated(tasks, FindPage(found, page, limit)))

\* GET /api/tasks with every parameter
TasksGETQuery(caller, query) ==
  IF caller = NoSession THEN Out(Resp(401, "Unauthorized"), {}, {}) ELSE
  Listed(Resp(200, ""), queryFilterOf(caller, query),
         IF query.page = Absent THEN DefaultPage ELSE query.page,
         IF query.limit = Absent THEN DefaultLimit ELSE query.limit)

\* server action getTasks with every parameter
getTasksQuery(caller, query) ==
  IF caller = NoSession THEN Out(Thrown("Failed to fetch tasks"), {}, {}) ELSE
  Listed(Returned, queryFilterOf(caller, query),
         IF query.page = Absent THEN DefaultPage ELSE query.page,
         IF query.limit = Absent THEN DefaultLimit ELSE query.limit)

\* applyClientSideFilters of useTasks, on the tasks of a response
applyClientSideFilters(listed, query) ==
  {t \in listed :
     /\ (query.status \notin {NoKey, ""} => tasks[t].status = query.status)
     /\ (query.priority \notin {NoKey, ""} =>
           tasks[t].priority = query.priority)
     /\ (query.categoryId # Absent =>
           /\ tasks[t].categoryId \in DOMAIN categories
           /\ tasks[t].categoryId = query.categoryId)
     /\ (query.search \notin {NoText, <<>>} =>
           \/ Includes(tasks[t].title, query.search)
           \/ Includes(tasks[t].description, query.search))}

\* list requests of two users over up to MaxListed tasks
MaxListed == 3
ListIds == 1..MaxListed
ListUsers == {"u1", "u2"}
ListCategoryIds == {1}

ListBodies ==
  {TaskBody(<<"a", "b", "c">>, NoText, NoKey, NoKey, NoKey, Absent),
   TaskBody(<<"a", "X", "c">>, <<"B">>, COMPLETED, HIGH, NoKey, 1),
   TaskBody(<<"a", "b", "c">>, <<"c", ".">>, COMPLETED, NoKey, NoKey, Absent),
   TaskBody(<<"c", "a", "b">>, NoText, NoKey, HIGH, NoKey, 1)}

SearchInputs ==
  {NoText, <<>>, <<"b">>, <<"B", "C">>, <<"x">>, <<".">>, <<"a", ".", "c">>,
   <<"c", "a">>}

PageInputs == {Absent, 1, 2, 3, 4}
LimitInputs == {Absent, 1, 2, 3}

Queries ==
  {Query(st, pr, c, NoText, Absent, Absent) :
     st \in {NoKey, "", TODO, COMPLETED}, pr \in {NoKey, "", MEDIUM, HIGH},
     c \in ListCategoryIds \cup {Absent}}
    \cup {Query(NoKey, NoKey, Absent, se, Absent, Absent) : se \in SearchInputs}
    \cup {Query(st, NoKey, Absent, NoText, pg, li) :
            st \in {NoKey, COMPLETED}, pg \in PageInputs, li \in LimitInputs}

InitList ==
  /\ tasks = <<>>
  /\ taskCreator = <<>>
  /\ categories = <<>>
  /\ freeTaskIds = ListIds
  /\ freeCategoryIds = ListCategoryIds
  /\ inflight = [r \in Requests |-> Idle]
  /\ users = <<>>
  /\ cached = NotConnected
  /\ hook = HookInitial

NextList ==
  \/ \E sc \in TaskSchemas, u \in ListUsers, body \in ListBodies :
       freeTaskIds # {} /\ Commit(TasksPOSTBody(sc, u, body))
  \/ \E u \in ListUsers :
       freeCategoryIds # {} /\ Commit(CategoriesPOST(u, <<"a", "b">>))
  \/ \E u \in ListUsers, query \in Queries : Commit(TasksGETQuery(u, query))
  \/ \E u \in ListUsers, query \in Queries : Commit(getTasksQuery(u, query))

SpecList == InitList /\ [][NextList]_vars

\* ----------------------------------------------------------- registration
\* registerSchema: name of 2 to 50 characters, password of 8 to 100
UserNameMin == 2
UserNameMax == 50
PasswordMin == 8
PasswordMax == 100

\* the roles of UserRole
USER == "USER"
ADMIN == "ADMIN"

\* a string of n characters
Repeat(ch, n) == [i \in 1..n |-> ch]

\* lowercase: true of userSchema.email (String.prototype.toLowerCase)
ToLowerCase(text) == [i \in 1..Len(text) |-> Lower(text[i])]

\* z.string().email(): characters, "@", characters, ".", characters, none of
\* them a space
EmailValid(email) ==
  /\ \A i \in 1..Len(email) : email[i] # " "
  /\ \E i \in 2..Len(email) : \E j \in (i + 2)..(Len(email) - 1) :
       /\ email[i] = "@" /\ email[j] = "."
       /\ \A k \in 1..Len(email) : email[k] = "@" => k = i

\* the body of a registration: the keys of registerSchema and a role key
\* that the schema does not have
RegisterBody(name, email, password, role) ==
  [name |-> name, email |-> email, password |-> password, role |-> role]

\* the fields that registerSchema rejects
registerSchemaErrors(body) ==
  {f \in {"name"} :
     Len(body.name) < UserNameMin \/ Len(body.name) > UserNameMax}
    \cup {f \in {"email"} : ~EmailValid(body.email)}
    \cup {f \in {"password"} :
            Len(body.password) < PasswordMin \/ Len(body.password) > PasswordMax}

\* a findOne that compares the email as it was given
existingUserAsGiven(email) ==
  {u \in DOMAIN users : users[u].email = email}

\* User.findOne({email}): the filter is cast with the setters of the schema
existingUser(email) ==
  {u \in DOMAIN users : users[u].email = ToLowerCase(email)}

\* a document that takes the role of the payload
NewUserWithRole(body) ==
  [name |-> body.name, email |-> ToLowerCase(body.email),
   role |-> IF body.role = NoKey THEN USER ELSE body.role]

\* the document of User.create({name, email, password: hashedPassword}):
\* the email in lower case, the role by the default of the schema
NewUser(body) ==
  [name |-> body.name, email |-> ToLowerCase(body.email), role |-> USER]

\* a collection without the unique index on email
NoEmailIndex(doc) == FALSE

\* unique: true of userSchema.email
EmailIndexViolated(doc) == \E u \in DOMAIN users : users[u].email = doc.email

\* the outcome of a registration: the response and the User collection
Registered(resp, coll) == [resp |-> resp, users |-> coll]

\* POST /api/register
RegisterPOST(body) ==
  CASE registerSchemaErrors(body) # {} ->
         Registered(Resp(400, "Invalid input"), users)
    [] existingUser(body.email) # {} ->
         Registered(Resp(409, "Email already registered"), users)
    [] EmailIndexViolated(NewUser(body)) ->
         Registered(Resp(500, "Registration failed"), users)
    [] OTHER ->
         Registered(Resp(201, ""),
                    Put(users, Cardinality(DOMAIN users) + 1, NewUser(body)))

\* server action registerUser
registerUser(data) ==
  CASE registerSchemaErrors(data) # {} ->
         Registered(Thrown("Invalid input"), users)
    [] existingUser(data.email) # {} ->
         Registered(Thrown("Email already registered"), users)
    [] EmailIndexViolated(NewUser(data)) ->
         Registered(Thrown("E11000 duplicate key error"), users)
    [] OTHER ->
         Registered(Returned,
                    Put(users, Cardinality(DOMAIN users) + 1, NewUser(data)))

\* registrations, one after the other, of up to MaxUsers users
MaxUsers == 3

RegisterBodies ==
  LET at == <<"@", "x", ".", "c">>
      name == Repeat("n", UserNameMin)
      password == Repeat("p", PasswordMin)
  IN {RegisterBody(n, <<e>> \o at, password, NoKey) :
        n \in {name, Repeat("m", UserNameMax)},
        e \in {"a", "A", "b", "B", "c", "x"}}
       \cup {RegisterBody(name, <<e>> \o at, password, r) :
               e \in {"a", "B"}, r \in {ADMIN, USER}}
       \cup {RegisterBody(n, <<"a">> \o at, password, NoKey) :
               n \in {Repeat("n", UserNameMin - 1),
                      Repeat("n", UserNameMax + 1)}}
       \cup {RegisterBody(name, <<"a">> \o at, p, NoKey) :
               p \in {Repeat("p", PasswordMin - 1),
                      Repeat("p", PasswordMax + 1)}}
       \cup {RegisterBody(name, e, password, NoKey) :
               e \in {<<"a", "@", "x">>, <<"a", " ", "@", "x", ".", "c">>}}

InitUsers ==
  /\ tasks = <<>>
  /\ taskCreator = <<>>
  /\ categories = <<>>
  /\ freeTaskIds = {}
  /\ freeCategoryIds = {}
  /\ inflight = [r \in Requests |-> Idle]
  /\ users = <<>>
  /\ cached = NotConnected
  /\ hook = HookInitial

\* the User collection becomes that of the outcome
CommitUsers(out) ==
  /\ users' = out.users
  /\ UNCHANGED <<tasks, taskCreator, categories, freeTaskIds, freeCategoryIds,
                 inflight, cached, hook>>

NextUsers ==
  \/ \E body \in RegisterBodies :
       Cardinality(DOMAIN users) < MaxUsers /\ CommitUsers(RegisterPOST(body))
  \/ \E data \in RegisterBodies :
       Cardinality(DOMAIN users) < MaxUsers /\ CommitUsers(registerUser(data))

SpecUsers == InitUsers /\ [][NextUsers]_vars

\* ------------------------------------------------------------ middleware
\* the two middleware files of the repository: Next.js runs the one that
\* the build finds (the project root or src/)
Middlewares == {"part_001", "task.model"}

\* String.prototype.startsWith
StartsWith(text, prefix) ==
  /\ Len(prefix) <= Len(text)
  /\ \A i \in 1..Len(prefix) : text[i] = prefix[i]

\* isPublicPath; only part_001 lists /api/register
isPublicPath(mw, path) ==
  \/ path = <<"/", "l", "o", "g", "i", "n">>
  \/ path = <<"/", "r", "e", "g", "i", "s", "t", "e", "r">>
  \/ path = <<"/">>
  \/ StartsWith(path, <<"/", "_", "n", "e", "x", "t">>)
  \/ StartsWith(path, <<"/", "a", "p", "i", "/", "a", "u", "t", "h">>)
  \/ (mw = "part_001" /\ StartsWith(path, <<"/", "a", "p", "i", "/", "r", "e", "g", "i", "s", "t", "e", "r">>))
  \/ \E i \in 1..Len(path) : path[i] = "."

\* config.matcher, "/((?!api/auth|_next/static|_next/image|favicon.ico).*)":
\* the middleware runs on a path unless what follows the first "/" begins
\* with one of the alternatives; "." stands for any character, and only
\* task.model.ts has the api/auth alternative
matcher(mw, path) ==
  LET rest == SubSeq(path, 2, Len(path))
      LookingAt(pattern) ==
        /\ Len(pattern) <= Len(rest)
        /\ \A i \in 1..Len(pattern) :
             pattern[i] = "." \/ pattern[i] = rest[i]
  IN /\ Len(path) >= 1 /\ path[1] = "/"
     /\ ~LookingAt(<<"_", "n", "e", "x", "t", "/", "s", "t", "a", "t", "i", "c">>)
     /\ ~LookingAt(<<"_", "n", "e", "x", "t", "/", "i", "m", "a", "g", "e">>)
     /\ ~LookingAt(<<"f", "a", "v", "i", "c", "o", "n", ".", "i", "c", "o">>)
     /\ ~(mw = "task.model" /\ LookingAt(SubSeq(<<"/", "a", "p", "i", "/", "a", "u", "t", "h">>, 2, Len(<<"/", "a", "p", "i", "/", "a", "u", "t", "h">>))))

\* what getToken gives: the token of a user, null, or an exception
GetTokenThrows == "<getToken throws>"
TokenLookups == Users \cup {NoSession, GetTokenThrows}

\* middleware(request): "next", "redirect:<path>", or "throw" when the
\* exception of getToken leaves the function. part_001 looks the token up
\* inside try, and only for a protected path or for /login and /register;
\* task.model.ts looks it up first, outside any try
middleware(mw, path, token) ==
  IF mw = "part_001"
  THEN IF ~isPublicPath(mw, path)
       THEN IF token \in Users THEN "next" ELSE "redirect:/login"
       ELSE IF path \in {<<"/", "l", "o", "g", "i", "n">>, <<"/", "r", "e", "g", "i", "s", "t", "e", "r">>} /\ token \in Users
            THEN "redirect:/dashboard"
            ELSE "next"
  ELSE IF token = GetTokenThrows THEN "throw"
       ELSE IF isPublicPath(mw, path) /\ token \in Users
                 /\ path \in {<<"/", "l", "o", "g", "i", "n">>, <<"/", "r", "e", "g", "i", "s", "t", "e", "r">>}
            THEN "redirect:/dashboard"
            ELSE IF ~isPublicPath(mw, path) /\ token \notin Users
                 THEN "redirect:/login"
                 ELSE "next"

\* what the server does with a request: the middleware decides where the
\* matcher selects the path, every other request proceeds to its route
Served(mw, path, token) ==
  IF matcher(mw, path) THEN middleware(mw, path, token) ELSE "next"

PathInputs ==
  { <<"/", "l", "o", "g", "i", "n">>,
    <<"/", "r", "e", "g", "i", "s", "t", "e", "r">>,
    <<"/">>,
    <<"/", "_", "n", "e", "x", "t", "/", "x">>,
    <<"/", "a", "p", "i", "/", "a", "u", "t", "h", "/", "x">>,
    <<"/", "a", "p", "i", "/", "r", "e", "g", "i", "s", "t", "e", "r">>,
    <<"/", "d", "a", "s", "h", "b", "o", "a", "r", "d">>,
    <<"/", "a", "p", "i", "/", "t", "a", "s", "k", "s">>,
    <<"/", "a", ".", "b">>,
    <<"/", "f", "a", "v", "i", "c", "o", "n", "-", "i", "c", "o">> }

\* a request arrives and is answered by the middleware or let through
MiddlewareRequest(r, mw, path, token) ==
  /\ inflight[r] = Idle
  /\ Await(r, Request(mw, Served(mw, path, token), token, Null, path))
  /\ UNCHANGED store

\* the answer has reached the browser
MiddlewareDone(r) ==
  /\ inflight[r] # Idle
  /\ Answered(r)
  /\ UNCHANGED store

NextMiddleware ==
  \/ \E r \in Requests, mw \in Middlewares, path \in PathInputs,
        token \in TokenLookups : MiddlewareRequest(r, mw, path, token)
  \/ \E r \in Requests : MiddlewareDone(r)

SpecMiddleware == Init /\ [][NextMiddleware]_vars

\* ------------------------------------- interleaved task and category calls
\* a request of the task routes between two persistence calls: via is "rest"
\* for a route handler and "action" for a server action; data is the update
\* payload or the list filter, total what countDocuments answered, and resp,
\* items the response once pc is "answered"
RaceRequest(op, pc, via, caller, id, data, total, resp, items) ==
  [op |-> op, pc |-> pc, via |-> via, caller |-> caller, id |-> id,
   data |-> data, total |-> total, resp |-> resp, items |-> items]

\* the handler returns (or throws): the response waits to be delivered
Reply(r, resp, items) ==
  Await(r, [inflight[r] EXCEPT !.pc = "answered", !.resp = resp,
                                !.items = items])

\* NextResponse.json(..., {status}) of a route, return / throw of an action
Answer(via, status, error) ==
  IF via = "rest" THEN Resp(status, error)
  ELSE IF status = 200 THEN Returned ELSE Thrown(error)

\* the session check, dbConnect and Task.findById of PATCH /api/tasks/[id],
\* DELETE /api/tasks/[id], updateTask and deleteTask, with the comparison of
\* the owner: the request goes on to its write (next) or is answered
TaskFindById(r, op, next, via, caller, id, data) ==
  /\ inflight[r] = Idle
  /\ Await(r, RaceRequest(
       op,
       IF id \in DOMAIN tasks /\ tasks[id].userId = caller
       THEN next ELSE "answered",
       via, caller, id, data, 0,
       CASE id \notin DOMAIN tasks -> Answer(via, 404, "Task not found")
         [] tasks[id].userId # caller -> Answer(via, 403, "Access denied")
         [] OTHER -> Answer(via, 200, ""),
       {}))
  /\ UNCHANGED store

\* an update with upsert: a task that is gone is inserted again
TaskPATCHUpsert(r) ==
  LET req == inflight[r]
      doc == IF req.id \in DOMAIN tasks THEN tasks[req.id]
             ELSE NewTask(req.caller, NoKey, Absent)
  IN /\ req.op = "TaskPATCH" /\ req.pc = "findByIdAndUpdate"
     /\ tasks' = Put(tasks, req.id, SetFields(doc, req.data))
     /\ Reply(r, Answer(req.via, 200, ""), {req.id})
     /\ UNCHANGED <<taskCreator, categories, freeTaskIds, freeCategoryIds,
                    users, cached, hook>>

\* Task.findByIdAndUpdate(id, {$set: updateData}, {new: true}) and what
\* follows it: of a task that is gone the call answers null, and reading
\* updatedTask._id throws a TypeError into the catch block
TaskPATCHUpdate(r) ==
  LET req == inflight[r] IN
  /\ req.op = "TaskPATCH" /\ req.pc = "findByIdAndUpdate"
  /\ IF req.id \in DOMAIN tasks
     THEN /\ tasks' = Put(tasks, req.id, SetFields(tasks[req.id], req.data))
          /\ Reply(r, Answer(req.via, 200, ""), {req.id})
     ELSE /\ tasks' = tasks
          /\ Reply(r, IF req.via = "rest"
                      THEN Resp(500, "Failed to update task")
                      ELSE Thrown("Cannot read properties of null"), {})
  /\ UNCHANGED <<taskCreator, categories, freeTaskIds, freeCategoryIds,
                 users, cached, hook>>

\* Task.findByIdAndDelete(id) and the success answer that follows whatever
\* the call found
TaskDELETEDelete(r) ==
  LET req == inflight[r] IN
  /\ req.op = "TaskDELETE" /\ req.pc = "findByIdAndDelete"
  /\ tasks' = Remove(tasks, req.id)
  /\ taskCreator' = Remove(taskCreator, req.id)
  /\ Reply(r, Answer(req.via, 200, ""), {})
  /\ UNCHANGED <<categories, freeTaskIds, freeCategoryIds, users, cached, hook>>

\* GET /api/tasks and getTasks up to the answer of
\* Task.countDocuments(queryFilter); data is the status of the filter
TasksGETCount(r, via, caller, status) ==
  /\ inflight[r] = Idle
  /\ Await(r, RaceRequest("TasksGET", "find", via, caller, Null, status,
                          Cardinality(queryFilter(caller, status, Absent)),
                          Answer(via, 200, ""), {}))
  /\ UNCHANGED store

\* Task.find(queryFilter).sort().skip(0).limit(10) and the response, whose
\* pagination.total is the count of the earlier call
TasksGETFind(r) ==
  LET req == inflight[r] IN
  /\ req.op = "TasksGET" /\ req.pc = "find"
  /\ Reply(r, req.resp, queryFilter(req.caller, req.data, Absent))
  /\ UNCHANGED store

\* DELETE /api/categories/[id] up to the answer of Category.findById
CategoryDELETEFindById(r, caller, id) ==
  /\ inflight[r] = Idle
  /\ Await(r, RaceRequest(
       "CategoryDELETE",
       IF id \in DOMAIN categories /\ categories[id].userId = caller
       THEN "countDocuments" ELSE "answered",
       "rest", caller, id, NoKey, 0,
       CASE id \notin DOMAIN categories -> Resp(404, "Category not found")
         [] categories[id].userId # caller -> Resp(403, "Access denied")
         [] OTHER -> Resp(200, ""),
       {}))
  /\ UNCHANGED store

\* Task.countDocuments({categoryId: id}): a count above 0 is answered 400
CategoryDELETECount(r) ==
  LET req == inflight[r] IN
  /\ req.op = "CategoryDELETE" /\ req.pc = "countDocuments"
  /\ IF tasksWithCategory(req.id) > 0
     THEN Reply(r, [Resp(400, "Cannot delete category") EXCEPT
                      !.n = tasksWithCategory(req.id)], {})
     ELSE Await(r, [req EXCEPT !.pc = "findByIdAndDelete"])
  /\ UNCHANGED store

\* a delete that counts the referencing tasks in the same step
CategoryDELETEDeleteIfUnused(r) ==
  LET req == inflight[r] IN
  /\ req.op = "CategoryDELETE" /\ req.pc = "findByIdAndDelete"
  /\ categories' = IF tasksWithCategory(req.id) > 0
                   THEN categories ELSE Remove(categories, req.id)
  /\ Reply(r, req.resp, {})
  /\ UNCHANGED <<tasks, taskCreator, freeTaskIds, freeCategoryIds, users,
                 cached, hook>>

\* Category.findByIdAndDelete(id), with no further look at the tasks
CategoryDELETEDelete(r) ==
  LET req == inflight[r] IN
  /\ req.op = "CategoryDELETE" /\ req.pc = "findByIdAndDelete"
  /\ categories' = Remove(categories, req.id)
  /\ Reply(r, req.resp, {})
  /\ UNCHANGED <<tasks, taskCreator, freeTaskIds, freeCategoryIds, users,
                 cached, hook>>

\* the response is delivered
Respond(r) ==
  /\ inflight[r] # Idle /\ inflight[r].pc = "answered"
  /\ Answered(r)
  /\ UNCHANGED store

MaxRaceTasks == 2
MaxRaceCategories == 1
RaceTaskIds == 1..MaxRaceTasks
RaceCategoryIds == 1..MaxRaceCategories
RaceUsers == {"u1"}
RaceVia == {"rest", "action"}

\* update payloads of one key: status, or categoryId naming a category of
\* the caller's list
RacePayloads ==
  {[status |-> COMPLETED, categoryId |-> Absent, userId |-> NoKey]}
    \cup {[status |-> NoKey, categoryId |-> c, userId |-> NoKey] :
            c \in DOMAIN categories}

InitRace ==
  /\ tasks = <<>>
  /\ taskCreator = <<>>
  /\ categories = <<>>
  /\ freeTaskIds = RaceTaskIds
  /\ freeCategoryIds = RaceCategoryIds
  /\ inflight = [r \in Requests |-> Idle]
  /\ users = <<>>
  /\ cached = NotConnected
  /\ hook = HookInitial

\* Task.create and Category.create are one persistence call each; the
\* categoryId of a create or update is one the client's category list shows
NextRace ==
  \/ \E u \in RaceUsers :
       freeCategoryIds # {} /\ Commit(CategoriesPOST(u, <<"a", "b">>))
  \/ \E u \in RaceUsers, c \in DOMAIN categories \cup {Absent} :
       freeTaskIds # {} /\ Commit(TasksPOST(u, NoKey, c))
  \/ \E r \in Requests, via \in RaceVia, u \in RaceUsers, t \in RaceTaskIds,
        d \in RacePayloads :
       TaskFindById(r, "TaskPATCH", "findByIdAndUpdate", via, u, t, d)
  \/ \E r \in Requests : TaskPATCHUpdate(r)
  \/ \E r \in Requests, via \in RaceVia, u \in RaceUsers, t \in RaceTaskIds :
       TaskFindById(r, "TaskDELETE", "findByIdAndDelete", via, u, t, NoKey)
  \/ \E r \in Requests : TaskDELETEDelete(r)
  \/ \E r \in Requests, via \in RaceVia, u \in RaceUsers,
        s \in {NoKey, COMPLETED} : TasksGETCount(r, via, u, s)
  \/ \E r \in Requests : TasksGETFind(r)
  \/ \E r \in Requests, u \in RaceUsers, c \in RaceCategoryIds :
       CategoryDELETEFindById(r, u, c)
  \/ \E r \in Requests : CategoryDELETECount(r)
  \/ \E r \in Requests : CategoryDELETEDelete(r)
  \/ \E r \in Requests : Respond(r)

SpecRace == InitRace /\ [][NextRace]_vars

\* ------------------------------------------------ interleaved registrations
\* POST /api/register and registerUser up to the answer of
\* User.findOne({email}): a body that fails registerSchema or names a
\* registered email is answered; otherwise bcrypt.hash and User.create follow
RegisterFindOne(r, via, body) ==
  /\ inflight[r] = Idle
  /\ Await(r, RaceRequest(
       "register",
       IF registerSchemaErrors(body) = {} /\ existingUser(body.email) = {}
       THEN "create" ELSE "answered",
       via, "none", Null, body, 0,
       IF registerSchemaErrors(body) # {}
       THEN (IF via = "rest" THEN RegisterPOST(body).resp
                             ELSE registerUser(body).resp)
       ELSE Answer(via, 409, "Email already registered"),
       {}))
  /\ UNCHANGED store

\* User.create: the insert, or the E11000 error of the unique index on
\* email, which the catch block answers
RegisterCreate(r) ==
  LET req == inflight[r]
      out == IF req.via = "rest" THEN RegisterPOST(req.data)
                                 ELSE registerUser(req.data)
  IN /\ req.op = "register" /\ req.pc = "create"
     /\ Cardinality(DOMAIN users) < MaxUsers
     /\ IF EmailIndexViolated(NewUser(req.data))
        THEN /\ users' = users
             /\ Reply(r, IF req.via = "rest"
                         THEN Resp(500, "Registration failed")
                         ELSE Thrown("E11000 duplicate key error"), {})
        ELSE /\ users' = Put(users, Cardinality(DOMAIN users) + 1,
                             NewUser(req.data))
             /\ Reply(r, IF req.via = "rest" THEN Resp(201, "")
                                             ELSE Returned,
                      {Cardinality(DOMAIN users) + 1})
     /\ UNCHANGED <<tasks, taskCreator, categories, freeTaskIds,
                    freeCategoryIds, cached, hook>>

\* the bodies of the interleaved registrations: three spellings of two emails
ConcRegisterBodies ==
  {RegisterBody(Repeat("n", UserNameMin), <<e>> \o <<"@", "x", ".", "c">>,
                Repeat("p", PasswordMin), NoKey) : e \in {"a", "A", "b"}}
    \cup {RegisterBody(Repeat("n", UserNameMin), <<"a", "@", "x">>,
                       Repeat("p", PasswordMin), NoKey)}

NextRegister ==
  \/ \E r \in Requests, via \in RaceVia, body \in ConcRegisterBodies :
       RegisterFindOne(r, via, body)
  \/ \E r \in Requests : RegisterCreate(r)
  \/ \E r \in Requests : Respond(r)

SpecRegister == InitUsers /\ [][NextRegister]_vars

\* ------------------------------------- task list, page and limit as sent
\* the two numbers of JavaScript that are no integer, as values outside the
\* range of every count of the model
NaN == -999999
Infinity == 999999

\* parseInt(text, 10): an optional "-", then the leading decimal digits;
\* NaN when there is none. Leading blanks and "+" are not modelled.
parseInt(text) ==
  LET digit == <<"0", "1", "2", "3", "4", "5", "6", "7", "8", "9">>
      IsDigit(ch) == \E d \in 1..10 : digit[d] = ch
      neg == Len(text) > 0 /\ text[1] = "-"
      rest == IF neg THEN Tail(text) ELSE text
      n == CHOOSE k \in 0..Len(rest) :
             /\ \A i \in 1..k : IsDigit(rest[i])
             /\ k = Len(rest) \/ ~IsDigit(rest[k + 1])
      value[k \in 0..n] ==
        IF k = 0 THEN 0
        ELSE 10 * value[k - 1] + (CHOOSE d \in 1..10 : digit[d] = rest[k]) - 1
  IN IF n = 0 THEN NaN ELSE IF neg THEN 0 - value[n] ELSE value[n]

\* parseInt(searchParams.get(name) || fallback, 10): a missing parameter and
\* an empty one take the fallback
ParamOr(text, fallback) ==
  IF text \in {NoText, <<>>} THEN fallback ELSE parseInt(text)

\* Math.ceil(total / limit) for a count total >= 0 and any number limit
MathCeil(total, limit) ==
  CASE limit = NaN -> NaN
    [] limit = 0 -> IF total = 0 THEN NaN ELSE Infinity
    [] limit < 0 -> 0 - (total \div (0 - limit))
    [] OTHER -> Ceil(total, limit)

\* the list response for the numbers page and limit: countDocuments, then
\* find().skip((page - 1) * limit).limit(limit). The database refuses a skip
\* below 0 and a skip or limit that is NaN (failed is then the answer); limit
\* 0 is no limit, and a limit below 0 is the limit of its absolute value
ListedNumbers(resp, failed, found, page, limit) ==
  IF page = NaN \/ limit = NaN \/ skip(page, limit) < 0
  THEN Out(failed, {}, {})
  ELSE LET onPage ==
             {t \in found :
                LET before == Cardinality({x \in found : x > t}) IN
                /\ before >= skip(page, limit)
                /\ limit # 0 =>
                     before < skip(page, limit)
                                + (IF limit < 0 THEN 0 - limit ELSE limit)}
       IN [pagination |-> [total |-> Cardinality(found), page |-> page,
                           limit |-> limit,
                           totalPages |-> MathCeil(Cardinality(found),
                                                   limit)]]
            @@ Out(resp, onPage, Populated(tasks, onPage))

\* GET /api/tasks?page=..&limit=.., the parameters as the URL has them
TasksGETParams(caller, page, limit) ==
  IF caller = NoSession THEN Out(Resp(401, "Unauthorized"), {}, {}) ELSE
  ListedNumbers(Resp(200, ""), Resp(500, "Failed to fetch tasks"),
                queryFilter(caller, NoKey, Absent),
                ParamOr(page, DefaultPage), ParamOr(limit, DefaultLimit))

\* apiClient.getTasks(params): the same parsing, then the server action
\* getTasks; what the action throws arrives as ApiError(500, message)
apiClientGetTasks(caller, page, limit) ==
  IF caller = NoSession
  THEN Out(ApiError(500, "Failed to fetch tasks"), {}, {}) ELSE
  ListedNumbers(Returned, ApiError(500, "Failed to fetch tasks"),
                queryFilter(caller, NoKey, Absent),
                ParamOr(page, DefaultPage), ParamOr(limit, DefaultLimit))

\* values of the page and limit parameters
PageTexts == {NoText, <<>>, <<"1">>, <<"2">>, <<"0">>, <<"-", "1">>,
              <<"a">>, <<"2", "x">>}
LimitTexts == {NoText, <<>>, <<"2">>, <<"1", "0">>, <<"0">>, <<"-", "1">>,
               <<"a">>}

\* SpecList with the list requests that carry page and limit as text
NextListParams ==
  \/ NextList
  \/ \E u \in ListUsers, pg \in PageTexts, li \in LimitTexts :
       Commit(TasksGETParams(u, pg, li))
  \/ \E u \in ListUsers, pg \in PageTexts, li \in LimitTexts :
       Commit(apiClientGetTasks(u, pg, li))

SpecListParams == InitList /\ [][NextListParams]_vars

\* -------------------------------------------------------------- dbConnect
\* the calls of mongoose.connect that one run of the process makes
MaxAttempts == 3

\* the two files that define dbConnect; both use the cache global.mongoose
DbConnectFiles == {"lib/db/connect", "auth"}

\* a guard that starts an attempt whatever the cache holds
AlwaysConnect(cache) == TRUE

\* if (!cached.promise)
NoPromise(cache) == cache.promise = Null

\* dbConnect() up to its first await or its early return. A call is made
\* from a task of its own, when no continuation is queued. cached.conn is
\* returned when set; otherwise the call awaits cached.promise, which it
\* first sets to the promise of a new mongoose.connect when there is none.
\* The promises are numbered in the order of their creation.
dbConnectCall(r, file) ==
  LET new == Len(cached.attempts) + 1
      call(pc, id, conn) ==
        RaceRequest("dbConnect", pc, file, "none", id, NoKey, conn,
                    Returned, {})
  IN /\ inflight[r] = Idle
     /\ cached.jobs = <<>>
     /\ IF cached.conn # Null
        THEN /\ Await(r, call("answered", cached.promise, cached.conn))
             /\ cached' = cached
        ELSE IF NoPromise(cached)
             THEN /\ new <= MaxAttempts
                  /\ cached' = [cached EXCEPT
                                  !.promise = new,
                                  !.attempts = Append(@, "pending")]
                  /\ Await(r, call("await", new, Null))
             ELSE /\ Await(r, call("await", cached.promise, Null))
                  /\ cached' = cached
     /\ UNCHANGED <<tasks, taskCreator, categories, freeTaskIds,
                    freeCategoryIds, users, hook>>

\* the promise of an attempt is fulfilled or rejected: the continuations of
\* the calls that await it are queued together
Settle(a, outcome) ==
  LET waiting == {r \in Requests :
                    /\ inflight[r] # Idle /\ inflight[r].op = "dbConnect"
                    /\ inflight[r].pc = "await" /\ inflight[r].id = a}
  IN /\ cached.jobs = <<>>
     /\ a \in 1..Len(cached.attempts) /\ cached.attempts[a] = "pending"
     /\ \E order \in [1..Cardinality(waiting) -> waiting] :
          /\ \A i, j \in 1..Cardinality(waiting) :
               order[i] = order[j] => i = j
          /\ cached' = [cached EXCEPT !.attempts[a] = outcome,
                                      !.jobs = order]
     /\ UNCHANGED <<tasks, taskCreator, categories, freeTaskIds,
                    freeCategoryIds, users, inflight, hook>>

\* the first queued continuation runs: cached.conn = await cached.promise
\* and return cached.conn, or the catch block: cached.promise = null; throw e
Continue ==
  /\ cached.jobs # <<>>
  /\ \E r \in {Head(cached.jobs)} :
       IF cached.attempts[inflight[r].id] = "fulfilled"
       THEN /\ cached' = [cached EXCEPT !.conn = inflight[r].id,
                                        !.jobs = Tail(@)]
            /\ Await(r, [inflight[r] EXCEPT !.pc = "answered",
                                            !.total = inflight[r].id])
       ELSE /\ cached' = [cached EXCEPT !.promise = Null, !.jobs = Tail(@)]
            /\ Await(r, [inflight[r] EXCEPT
                           !.pc = "answered",
                           !.resp = Thrown("connect failed")])
  /\ UNCHANGED <<tasks, taskCreator, categories, freeTaskIds,
                 freeCategoryIds, users, hook>>

NextConnect ==
  \/ \E r \in Requests, file \in DbConnectFiles : dbConnectCall(r, file)
  \/ \E a \in 1..MaxAttempts, outcome \in {"fulfilled", "rejected"} :
       Settle(a, outcome)
  \/ Continue
  \/ \E r \in Requests : Respond(r)

SpecConnect == Init /\ [][NextConnect]_vars

\* ---------------------------------------------------------------- useTasks
\* the session user of the page
HookUser == "u1"

\* the limit in the URLs of the page
HookLimit == 2

\* the URLs of the page: the bare one it opens with, and those with or
\* without a status filter and a page, HookLimit tasks a page
HookQueries ==
  {HookInitial.url} \cup
  {Query(st, NoKey, Absent, NoText, pg, HookLimit) :
     st \in {NoKey, COMPLETED}, pg \in {Absent, 2}}

\* params of fetchTasks: buildQueryParams() with page and limit set to the
\* numbers parsed from the URL or their defaults; params.toString() is the
\* cache key
HookParams(url) ==
  [url EXCEPT !.page = IF @ = Absent THEN DefaultPage ELSE @,
              !.limit = IF @ = Absent THEN DefaultLimit ELSE @]

\* applyClientSideFilters as a state update: the loaded tasks that pass the
\* filters of the URL become the exposed list, and total and totalPages of
\* the pagination become those of that list; page and limit stay
HookApply(h) ==
  IF h.tasks = {} THEN [h EXCEPT !.filteredTasks = {}]
  ELSE LET filtered == applyClientSideFilters(h.tasks, h.url) IN
       [h EXCEPT !.filteredTasks = filtered,
                 !.pagination =
                   [total |-> Cardinality(filtered),
                    page |-> h.pagination.page,
                    limit |-> h.pagination.limit,
                    totalPages |-> MathCeil(Cardinality(filtered),
                                            h.pagination.limit)]]

\* fetchTasks(force) up to its await: client-side filtering when tasks are
\* loaded and the call is not forced; else the cached response of the
\* params when there is a fresh one and the call is not forced; else the
\* request to apiClient.getTasks
fetchTasks(h, force) ==
  LET params == HookParams(h.url) IN
  IF ~force /\ h.tasks # {}
  THEN [HookApply(h) EXCEPT !.isClientSideFiltering = TRUE,
                            !.isLoading = FALSE, !.effects = FALSE]
  ELSE IF ~force /\ params \in DOMAIN h.cache /\ h.cache[params].fresh
       THEN [h EXCEPT !.tasks = h.cache[params].tasks,
                      !.filteredTasks = h.cache[params].tasks,
                      !.pagination = h.cache[params].pagination,
                      !.isClientSideFiltering = FALSE,
                      !.isLoading = FALSE,
                      !.effects = h.cache[params].tasks # h.tasks]
       ELSE [h EXCEPT !.isLoading = TRUE, !.request = <<params>>,
                      !.effects = FALSE]

\* the effects after a render whose dependencies changed: the filter effect
\* (applyClientSideFilters when isClientSideFiltering), then fetchTasks()
HookEffects ==
  /\ hook.effects /\ hook.request = <<>>
  /\ hook' = fetchTasks(IF hook.isClientSideFiltering
                        THEN HookApply(hook) ELSE hook, FALSE)
  /\ UNCHANGED <<tasks, taskCreator, categories, freeTaskIds,
                 freeCategoryIds, users, inflight, cached>>

\* fetchTasks after its await: the response of apiClient.getTasks is cached
\* under the params and becomes the loaded and the exposed list and the
\* pagination; tasks is a new array, so the effects run again. An error is
\* shown as a toast and changes nothing but isLoading.
HookResponse ==
  /\ hook.request # <<>>
  /\ LET params == Head(hook.request)
         out == apiClient(getTasksQuery(HookUser, params))
     IN hook' =
          IF out.resp = Returned
          THEN [hook EXCEPT
                  !.cache = Put(@, params,
                                [tasks |-> out.items,
                                 pagination |-> out.pagination,
                                 fresh |-> TRUE]),
                  !.tasks = out.items,
                  !.filteredTasks = out.items,
                  !.pagination = out.pagination,
                  !.isClientSideFiltering = FALSE,
                  !.isLoading = FALSE,
                  !.request = <<>>,
                  !.effects = TRUE]
          ELSE [hook EXCEPT !.isLoading = FALSE, !.request = <<>>]
  /\ UNCHANGED <<tasks, taskCreator, categories, freeTaskIds,
                 freeCategoryIds, users, inflight, cached>>

\* the URL changes (router.push of updateFilters, or a link to a page):
\* searchParams is new, so the effects run
HookNavigate(url) ==
  /\ ~hook.effects /\ hook.request = <<>>
  /\ url # hook.url
  /\ hook' = [hook EXCEPT !.url = url, !.effects = TRUE]
  /\ UNCHANGED <<tasks, taskCreator, categories, freeTaskIds,
                 freeCategoryIds, users, inflight, cached>>

\* refreshTasks(): fetchTasks(true)
refreshTasks ==
  /\ ~hook.effects /\ hook.request = <<>>
  /\ hook' = fetchTasks(hook, TRUE)
  /\ UNCHANGED <<tasks, taskCreator, categories, freeTaskIds,
                 freeCategoryIds, users, inflight, cached>>

\* cacheDuration passes: every cached response is stale
HookExpire ==
  /\ ~hook.effects /\ hook.request = <<>>
  /\ \E params \in DOMAIN hook.cache : hook.cache[params].fresh
  /\ hook' = [hook EXCEPT
                !.cache = [params \in DOMAIN @ |-> [@[params] EXCEPT
                                                      !.fresh = FALSE]]]
  /\ UNCHANGED <<tasks, taskCreator, categories, freeTaskIds,
                 freeCategoryIds, users, inflight, cached>>

\* the tasks of the user exist before the page is opened
MaxHookTasks == 3

InitHook ==
  /\ tasks = <<>>
  /\ taskCreator = <<>>
  /\ categories = <<>>
  /\ freeTaskIds = 1..MaxHookTasks
  /\ freeCategoryIds = {}
  /\ inflight = [r \in Requests |-> Idle]
  /\ users = <<>>
  /\ cached = NotConnected
  /\ hook = HookInitial

NextHook ==
  \/ \E st \in {NoKey, COMPLETED} :
       /\ hook = HookInitial /\ freeTaskIds # {}
       /\ Commit(TasksPOSTBody("task.model", HookUser,
                               TaskBody(<<"a", "b", "c">>, NoText, st, NoKey,
                                        NoKey, Absent)))
  \/ HookEffects
  \/ HookResponse
  \/ \E url \in HookQueries : HookNavigate(url)
  \/ refreshTasks
  \/ HookExpire

\* the effects of a render run, and a request is answered
SpecHook ==
  /\ InitHook /\ [][NextHook]_vars
  /\ WF_vars(HookEffects) /\ WF_vars(HookResponse)

\* ================================================================ claims
\* the error kind that a response stands for
Kind(r) ==
  CASE r.status \in {200, 201, 204} -> "Ok"
    [] r.error = "Email already registered" -> "DuplicateEmail"
    [] r.status = 401 \/ r.error = "Unauthorized" -> "Unauthenticated"
    [] r.status = 404 -> "NotFound"
    [] r.error \in {"Task not found", "Category not found"} -> "NotFound"
    [] r.status = 403 \/ r.error = "Access denied" -> "AccessDenied"
    [] r.status = 409 -> "DuplicateName"
    [] r.error = "Category with this name already exists" -> "DuplicateName"
    [] r.error = "Cannot delete category" -> "ConflictInUse"
    [] r.status = 400 \/ r.error = "fieldErrors" -> "ValidationFailed"
    [] OTHER -> "PersistenceFailure"

\* what a caller can get from the read handlers in the current state
TaskReads(u) ==
  {TasksGET(u, s, c) : s \in StatusParams, c \in CategoryIds \cup {Absent}}
    \cup {getTasks(u, s, c) : s \in StatusParams, c \in CategoryIds \cup {Absent}}
    \cup {TaskGET(u, t) : t \in TaskIds}
    \cup {getTaskById(u, t) : t \in TaskIds}

CategoryReads(u) ==
  {CategoriesGET(u), getCategories(u)}
    \cup {CategoryGET(u, c) : c \in CategoryIds}
    \cup {CategoryGETScoped(u, c) : c \in CategoryIds}
    \cup {getCategoryById(u, c) : c \in CategoryIds}

\* C1: read isolation. No task list (under any status / categoryId filter),
\* task get-by-id, category list or category get-by-id invoked as u returns
\* a task or a category that another user created.
C1_ReadIsolation ==
  \A u \in Users : \A o \in TaskReads(u) \cup CategoryReads(u) :
    /\ \A t \in o.items : taskCreator[t] = u
    /\ \A c \in o.cats : categories[c].userId = u

\* the outcomes of the by-id write handlers addressed at task t / category c
TaskWrites(u, t) ==
  {TaskPATCH(u, t, d) : d \in UpdatePayloads(CategoryIds)}
    \cup {updateTask(u, t, d) : d \in UpdatePayloads(CategoryIds)}
    \cup {TaskDELETE(u, t), deleteTask(u, t)}

CategoryWrites(u, c) ==
  {CategoryPATCH(u, c, n) : n \in NameInputs}
    \cup {CategoryPATCHScoped(u, c, n) : n \in NameInputs}
    \cup {updateCategory(u, c, n) : n \in NameInputs}
    \cup {CategoryDELETE(u, c), CategoryDELETEScoped(u, c), deleteCategory(u, c)}

SameCollections(o) ==
  /\ o.tasks = tasks
  /\ o.taskCreator = taskCreator
  /\ o.categories = categories

\* C2: write isolation. A task update, task delete, category rename or
\* category delete invoked as u on a record owned by another user leaves the
\* collections as they were; and whatever record u addresses, no record of
\* another user is changed or removed.
C2_WriteIsolation ==
  \A u \in Users :
    /\ \A t \in DOMAIN tasks : tasks[t].userId # u =>
         \A o \in TaskWrites(u, t) : SameCollections(o)
    /\ \A c \in DOMAIN categories : categories[c].userId # u =>
         \A o \in CategoryWrites(u, c) : SameCollections(o)
    /\ \A o \in UNION {TaskWrites(u, t) : t \in TaskIds}
                  \cup UNION {CategoryWrites(u, c) : c \in CategoryIds} :
         /\ \A t \in DOMAIN tasks : tasks[t].userId # u =>
              t \in DOMAIN o.tasks /\ o.tasks[t] = tasks[t]
         /\ \A c \in DOMAIN categories : categories[c].userId # u =>
              c \in DOMAIN o.categories /\ o.categories[c] = categories[c]

\* u2 addresses a task and a category of u1 and is refused
C2_Witness ==
  \E t \in DOMAIN tasks, c \in DOMAIN categories :
    /\ tasks[t].userId = "u1"
    /\ categories[c].userId = "u1"
    /\ TaskDELETE("u2", t).resp.status = 403
    /\ TaskPATCH("u2", t, [status |-> COMPLETED, categoryId |-> Absent,
                           userId |-> NoKey]).resp.status = 403
    /\ deleteCategory("u2", c).resp.error = "Category not found"

\* C3: a task's userId stays the userId it was created with, through every
\* update entry point and payload.
C3_OwnerImmutable ==
  \A t \in DOMAIN tasks : tasks[t].userId = taskCreator[t]

\* C4: no task stores a reference to a category owned by a different user.
C4_CategoryOfSameUser ==
  \A t \in DOMAIN tasks :
    tasks[t].categoryId \in DOMAIN categories =>
      categories[tasks[t].categoryId].userId = tasks[t].userId

\* C5: task create with a categoryId that names no category, or a category
\* owned by a different user, is rejected and creates no task.
C5_ForeignCategoryRejected ==
  \A u \in Users, s \in StatusParams, c \in CategoryIds :
    (freeTaskIds # {}
       /\ (c \in DOMAIN categories => categories[c].userId # u)) =>
      \A o \in {TasksPOST(u, s, c), createTask(u, s, c)} :
        /\ Kind(o.resp) \in {"NotFound", "ValidationFailed"}
        /\ o.tasks = tasks

\* C6: deleting a category that N > 0 tasks reference fails with
\* ConflictInUse carrying N and leaves the category in the store; with no
\* task referring to it the owner's delete succeeds. At every delete entry
\* point.
C6_InUseDeleteRefused ==
  \A c \in DOMAIN categories :
    \A o \in {CategoryDELETE(categories[c].userId, c),
              CategoryDELETEScoped(categories[c].userId, c),
              deleteCategory(categories[c].userId, c)} :
      IF tasksWithCategory(c) > 0
      THEN /\ Kind(o.resp) = "ConflictInUse"
           /\ o.resp.n = tasksWithCategory(c)
           /\ o.categories = categories
      ELSE /\ Kind(o.resp) = "Ok"
           /\ o.categories = Remove(categories, c)

\* C7: in every state, also between the steps of interleaved create and
\* rename requests, no user owns two categories with the same stored name.
C7_UniqueNamePerUser ==
  \A c1 \in DOMAIN categories, c2 \in DOMAIN categories :
    (c1 # c2 /\ categories[c1].userId = categories[c2].userId) =>
      categories[c1].name # categories[c2].name

\* a create or rename has passed its lookup and is about to write a name
\* that, by now, another category of the same user holds
C7_Witness ==
  \E r \in Requests, c \in DOMAIN categories :
    /\ inflight[r].pc \in {"create", "update"}
    /\ c # inflight[r].id
    /\ categories[c].userId = inflight[r].caller
    /\ categories[c].name = inflight[r].name

\* the caller holds, in a category other than id, the name as it is stored
Holds(u, name, id) ==
  \E c \in DOMAIN categories :
    c # id /\ categories[c].userId = u /\ categories[c].name = Trim(name)

ValidName(name) ==
  /\ Len(name) >= CategoryNameMin /\ Len(name) <= CategoryNameMax
  /\ Len(Trim(name)) >= CategoryNameMin

\* C8: creating a category whose name the caller already holds fails with
\* DuplicateName and adds no record; a name the caller does not hold is
\* created, whether or not another user holds the same name.
C8_DuplicateCreate ==
  \A u \in Users, n \in NameInputs :
    (categoryCreateSchema(n).success /\ freeCategoryIds # {}) =>
      \A o \in {CategoriesPOST(u, n), createCategory(u, n)} :
        IF Holds(u, n, Null)
        THEN Kind(o.resp) = "DuplicateName" /\ o.categories = categories
        ELSE ValidName(n) =>
             /\ Kind(o.resp) = "Ok"
             /\ \E c \in DOMAIN o.categories \ DOMAIN categories :
                  /\ o.categories[c] = [name |-> Trim(n), userId |-> u]
                  /\ DOMAIN o.categories = DOMAIN categories \cup {c}
             /\ \A c \in DOMAIN categories : o.categories[c] = categories[c]

\* both users hold "ab", a further create of it by u1 is refused, and u2
\* can still be given a name that only u1 holds
C8_Witness ==
  /\ Holds("u1", <<"a", "b">>, Null)
  /\ Holds("u2", <<"a", "b">>, Null)
  /\ freeCategoryIds # {}
  /\ CategoriesPOST("u1", <<" ", "a", "b">>).resp.status = 409
  /\ createCategory("u1", <<"a", "b">>).resp.error =
       "Category with this name already exists"

\* C9: a rename by the owner to a name that another category of the owner
\* holds is rejected with DuplicateName and changes nothing; any other valid
\* name is applied to that category and to no other. At every rename entry
\* point.
C9_DuplicateRename ==
  \A c \in DOMAIN categories, n \in NameInputs :
    ValidName(n) =>
      \A o \in {CategoryPATCH(categories[c].userId, c, n),
                CategoryPATCHScoped(categories[c].userId, c, n),
                updateCategory(categories[c].userId, c, n)} :
        IF Holds(categories[c].userId, n, c)
        THEN /\ Kind(o.resp) = "DuplicateName"
             /\ o.categories = categories
        ELSE /\ Kind(o.resp) = "Ok"
             /\ o.categories = [categories EXCEPT ![c].name = Trim(n)]

\* C10: a by-id operation on a record of another user is answered as if the
\* record did not exist, with NotFound.
C10_NoExistenceLeak ==
  \A u \in Users :
    /\ \A t \in DOMAIN tasks : tasks[t].userId # u =>
         \A o \in TaskWrites(u, t) \cup {TaskGET(u, t), getTaskById(u, t)} :
           Kind(o.resp) = "NotFound"
    /\ \A c \in DOMAIN categories : categories[c].userId # u =>
         \A o \in {CategoryGET(u, c), CategoryGETScoped(u, c),
                   getCategoryById(u, c), CategoryDELETE(u, c),
                   CategoryDELETEScoped(u, c), deleteCategory(u, c)}
                  \cup {CategoryPATCH(u, c, n) :
                          n \in {m \in NameInputs :
                                   ValidName(m) /\ ~Holds(u, m, c)}}
                  \cup {CategoryPATCHScoped(u, c, n) :
                          n \in {m \in NameInputs :
                                   ValidName(m) /\ ~Holds(u, m, c)}}
                  \cup {updateCategory(u, c, n) :
                          n \in {m \in NameInputs :
                                   ValidName(m) /\ ~Holds(u, m, c)}} :
           Kind(o.resp) = "NotFound"

\* the outcomes of every task and category handler invoked as u
AllRequests(u) ==
  TaskReads(u) \cup CategoryReads(u)
    \cup UNION {TaskWrites(u, t) : t \in TaskIds}
    \cup UNION {CategoryWrites(u, c) : c \in CategoryIds}
    \cup {TasksPOST(u, s, c) : s \in StatusParams,
                               c \in CategoryIds \cup {Null, Absent}}
    \cup {createTask(u, s, c) : s \in StatusParams,
                                c \in CategoryIds \cup {Null, Absent}}
    \cup {CategoriesPOST(u, n) : n \in NameInputs}
    \cup {createCategory(u, n) : n \in NameInputs}

\* C11: every task and category operation invoked without a session ends
\* with Unauthenticated, returns no record and leaves the store as it was.
C11_Unauthenticated ==
  \A o \in AllRequests(NoSession) :
    /\ Kind(o.resp) = "Unauthenticated"
    /\ o.items = {} /\ o.cats = {}
    /\ SameCollections(o)

\* a create payload that meets the constraints of the task fields: title of
\* 3 to 100 characters, description of at most 1000, status and priority of
\* their enums, a due date that parses, a category that exists
ValidCreatePayload(body) ==
  /\ body.title \notin {NoText, NullText}
  /\ Len(Trim(body.title)) >= TitleMin /\ Len(body.title) <= TitleMax
  /\ body.description # NullText
  /\ (body.description # NoText => Len(body.description) <= DescriptionMax)
  /\ body.status \in TaskStatusValues \cup {NoKey}
  /\ body.priority \in PriorityInputs \cup {NoKey}
  /\ (body.dueDate \notin {NoKey, NullDate}
        => DateParse(body.dueDate) # InvalidDate)
  /\ body.categoryId \in DOMAIN categories \cup {Null, Absent}

\* got equals the payload on the fields other than title and description,
\* defaults applied; the due date as an instant
SameButText(body, got) ==
  /\ got.status = (IF body.status = NoKey THEN TODO ELSE body.status)
  /\ got.priority = (IF body.priority = NoKey THEN MEDIUM ELSE body.priority)
  /\ (body.dueDate \notin {NoKey, NullDate}
        => DateParse(got.dueDate) = DateParse(body.dueDate))
  /\ (body.dueDate \in {NoKey, NullDate} => got.dueDate = NullDate)
  /\ (body.categoryId \notin {Null, Absent} => got.category = body.categoryId)
  /\ (body.categoryId \in {Null, Absent} => got.category = Null)

\* this step is the create of body by u, through either entry point
CreatedBy(u, body) ==
  /\ DOMAIN tasks' # DOMAIN tasks
  /\ \E sc \in TaskSchemas :
       \E o \in {TasksPOSTBody(sc, u, body), createTaskData(sc, u, body)} :
         tasks' = o.tasks

\* what the gets of task id answer u, as a task record
GotTask(u, id) ==
  {formattedTask(tasks[t]) :
     t \in TaskGET(u, id).items \cup getTaskById(u, id).items}

\* C12 as stated: after the create of a valid payload, the get of the new id
\* returns a record equal to the payload on every provided field, with
\* status TODO and priority MEDIUM when omitted; the title may come back
\* trimmed, the description is the one given.
C12_RoundTripExact ==
  [][\A u \in RecordUsers, body \in CreateBodies :
       (CreatedBy(u, body) /\ ValidCreatePayload(body)) =>
         \A id \in {Min(freeTaskIds)} :
         /\ TaskGET(u, id)'.resp.status = 200
         /\ getTaskById(u, id)'.resp = Returned
         /\ \A got \in GotTask(u, id)' :
              /\ SameButText(body, got)
              /\ got.title \in {body.title, Trim(body.title)}
              /\ got.description = body.description]_vars

\* C12, amended: as above, the title and the description compared after
\* the whitespace around them is removed.
C12_RoundTrip ==
  [][\A u \in RecordUsers, body \in CreateBodies :
       (CreatedBy(u, body) /\ ValidCreatePayload(body)) =>
         \A id \in {Min(freeTaskIds)} :
         /\ TaskGET(u, id)'.resp.status = 200
         /\ getTaskById(u, id)'.resp = Returned
         /\ GotTask(u, id)' # {}
         /\ \A got \in GotTask(u, id)' :
              /\ SameButText(body, got)
              /\ Trim(got.title) = Trim(body.title)
              /\ (body.description = NoText) = (got.description = NoText)
              /\ body.description # NoText =>
                   Trim(got.description) = Trim(body.description)]_vars

\* a task created with every key given, and one created with the title alone,
\* are in the store and their owner gets them
C12_Witness ==
  \E t1 \in DOMAIN tasks, t2 \in DOMAIN tasks :
    /\ tasks[t1].description = <<"d">> /\ tasks[t1].dueDate = 1
    /\ tasks[t1].categoryId \in DOMAIN categories
    /\ tasks[t1].priority = HIGH
    /\ tasks[t2].description = NoText /\ tasks[t2].status = TODO
    /\ tasks[t2].priority = MEDIUM
    /\ TaskGET("u1", t1).resp.status = 200

TaskFields ==
  {"title", "description", "status", "priority", "dueDate", "categoryId",
   "userId"}

\* the keys that an update payload carries
GivenKeys(body) ==
  {k \in {"title"} : body.title # NoText}
    \cup {k \in {"description"} : body.description # NoText}
    \cup {k \in {"status"} : body.status # NoKey}
    \cup {k \in {"priority"} : body.priority # NoKey}
    \cup {k \in {"dueDate"} : body.dueDate # NoKey}
    \cup {k \in {"categoryId"} : body.categoryId # Absent}
    \cup {k \in {"userId"} : body.userId # NoKey}

\* the outcomes of the update entry points for the owner of task t
TaskUpdates(t, body) ==
  UNION {{TaskPATCHBody(sc, tasks[t].userId, t, body),
          updateTaskData(sc, tasks[t].userId, t, body),
          apiClientUpdateTask(sc, tasks[t].userId, t, body)} :
           sc \in TaskSchemas}

TaskLists(u, query) == {TasksGETQuery(u, query), getTasksQuery(u, query)}

\* the tasks of u that pass the status, priority and category of the query
Conjunction(u, query) ==
  {t \in DOMAIN tasks :
     /\ tasks[t].userId = u
     /\ (query.status \notin {NoKey, ""} => tasks[t].status = query.status)
     /\ (query.priority \notin {NoKey, ""} =>
           tasks[t].priority = query.priority)
     /\ (query.categoryId # Absent => tasks[t].categoryId = query.categoryId)}

\* n items are on page p of T matching tasks, L to a page
OnPage(T, L, p) ==
  LET rest == IF T - (p - 1) * L > 0 THEN T - (p - 1) * L ELSE 0
  IN IF L < rest THEN L ELSE rest

\* C14: for page size L >= 1 over T matching tasks, totalPages is the least
\* number of pages of L that hold T, total is T on every page, and page
\* p >= 1 has min(L, max(0, T - (p - 1) * L)) items; the pages are disjoint
\* and the pages 1..totalPages hold every matching task.
C14_Pagination ==
  \A u \in ListUsers, st \in {NoKey, COMPLETED}, L \in LimitInputs \ {Absent} :
    LET T == Cardinality(Conjunction(u, Query(st, NoKey, Absent, NoText,
                                              Absent, Absent)))
        PageOf(h, p) == IF h = "rest"
                        THEN TasksGETQuery(u, Query(st, NoKey, Absent, NoText,
                                                    p, L))
                        ELSE getTasksQuery(u, Query(st, NoKey, Absent, NoText,
                                                    p, L))
    IN \A h \in {"rest", "action"} :
         /\ \A p \in PageInputs \ {Absent} :
              /\ PageOf(h, p).pagination.total = T
              /\ PageOf(h, p).pagination.totalPages * L >= T
              /\ (PageOf(h, p).pagination.totalPages - 1) * L < T
              /\ PageOf(h, p).pagination.totalPages >= 0
              /\ Cardinality(PageOf(h, p).items) = OnPage(T, L, p)
              /\ \A q \in PageInputs \ {Absent, p} :
                   PageOf(h, p).items \cap PageOf(h, q).items = {}
         /\ UNION {PageOf(h, p).items :
                     p \in 1..PageOf(h, 1).pagination.totalPages}
              = Conjunction(u, Query(st, NoKey, Absent, NoText, Absent, Absent))

\* three tasks of one user are listed two to a page: two pages, the second
\* of one task, the third empty
C14_Witness ==
  \E u \in ListUsers :
    LET PageOf(p) == TasksGETQuery(u, Query(NoKey, NoKey, Absent, NoText, p, 2))
    IN /\ PageOf(1).pagination.total = 3
       /\ PageOf(1).pagination.totalPages = 2
       /\ Cardinality(PageOf(1).items) = 2
       /\ Cardinality(PageOf(2).items) = 1
       /\ PageOf(3).items = {}

\* C15: a list filtered by status, priority and categoryId, in any
\* combination, returns the caller's tasks that satisfy every filter given
\* and no other; a filter that is not given does not narrow the result.
C15_FilterConjunction ==
  \A u \in ListUsers, query \in Queries :
    (query.search = NoText /\ query.page = Absent /\ query.limit = Absent) =>
      \A o \in TaskLists(u, query) :
        /\ Kind(o.resp) = "Ok"
        /\ o.items = Conjunction(u, query)
        /\ o.pagination.total = Cardinality(Conjunction(u, query))

\* a user with tasks of both statuses, both priorities, with and without the
\* category, beside a task of another user, filters by all three parameters
\* and gets one task of several
C15_Witness ==
  \E u \in ListUsers :
    /\ \E t \in DOMAIN tasks : tasks[t].userId # u
    /\ Cardinality({t \in DOMAIN tasks : tasks[t].userId = u}) = 2
    /\ Cardinality(TasksGETQuery(u, Query(COMPLETED, HIGH, 1, NoText,
                                          Absent, Absent)).items) = 1
    /\ Cardinality(TasksGETQuery(u, Query(NoKey, HIGH, Absent, NoText,
                                          Absent, Absent)).items) = 2
    /\ Cardinality(TasksGETQuery(u, Query(TODO, NoKey, 1, NoText,
                                          Absent, Absent)).items) = 1

\* C16: a search with a non-empty string returns the caller's tasks whose
\* title or description contains the string, letter case ignored, and no
\* other task; on the server and in the client-side filter alike.
C16_Search ==
  \A u \in ListUsers, s \in SearchInputs \ {NoText, <<>>} :
    LET query == Query(NoKey, NoKey, Absent, s, Absent, Absent)
        containing == {t \in DOMAIN tasks :
                         /\ tasks[t].userId = u
                         /\ \/ Includes(tasks[t].title, s)
                            \/ Includes(tasks[t].description, s)}
    IN /\ \A o \in TaskLists(u, query) : o.items = containing
       /\ applyClientSideFilters({t \in DOMAIN tasks : tasks[t].userId = u},
                                 query) = containing

\* the outcomes of the registration entry points
Registrations(body) == {RegisterPOST(body), registerUser(body)}

\* C17: a registration whose email matches that of a user, letter case
\* ignored, is rejected with DuplicateEmail; it creates no user and leaves
\* the users as they were.
C17_DuplicateEmail ==
  \A body \in RegisterBodies :
    (/\ registerSchemaErrors(body) = {}
     /\ \E u \in DOMAIN users :
          ToLowerCase(users[u].email) = ToLowerCase(body.email)) =>
      \A o \in Registrations(body) :
        /\ Kind(o.resp) = "DuplicateEmail"
        /\ o.users = users

\* the user a@x.c exists and a registration as A@x.c is being answered
C17_Witness ==
  /\ \E u \in DOMAIN users : users[u].email = <<"a", "@", "x", ".", "c">>
  /\ \E body \in RegisterBodies :
       /\ body.email = <<"A", "@", "x", ".", "c">>
       /\ Kind(RegisterPOST(body).resp) = "DuplicateEmail"

\* C19: every user is persisted with role USER, whatever keys the payload
\* of the registration carries; no registration gives a user role ADMIN.
C19_RoleUser ==
  /\ \A u \in DOMAIN users : users[u].role = USER
  /\ \A body \in RegisterBodies : \A o \in Registrations(body) :
       \A u \in DOMAIN o.users : o.users[u].role = USER

\* a registration that carries role ADMIN is accepted beside a user
C19_Witness ==
  /\ users # <<>>
  /\ \E body \in RegisterBodies :
       /\ body.role = ADMIN
       /\ RegisterPOST(body).resp.status = 201
       /\ registerUser(body).resp = Returned

\* a task payload breaks a constraint of its fields: a title that is null
\* or whose trimmed length is not 3 to 100, a description above 1000, a
\* status or priority outside its enum, a due date that does not parse
ViolatesTaskConstraint(body) ==
  \/ body.title = NullText
  \/ /\ body.title \notin {NoText, NullText}
     /\ Len(Trim(body.title)) < TitleMin \/ Len(Trim(body.title)) > TitleMax
  \/ /\ body.description \notin {NoText, NullText}
     /\ Len(body.description) > DescriptionMax
  \/ body.status \notin TaskStatusValues \cup {NoKey}
  \/ body.priority \notin PriorityInputs \cup {NoKey}
  \/ /\ body.dueDate \notin {NoKey, NullDate, ""}
     /\ DateParse(body.dueDate) = InvalidDate

\* the outcomes of the category create and rename entry points for the
\* owner of category c
CategoryNameWrites(u, c, name) ==
  {CategoriesPOST(u, name), createCategory(u, name)}
    \cup (IF c \in OwnCategories(u)
          THEN {CategoryPATCH(u, c, name), CategoryPATCHScoped(u, c, name),
                updateCategory(u, c, name)}
          ELSE {})

\* C18: a task create or update payload, or a category name, that breaks a
\* field constraint (a trimmed length out of range included) is answered
\* with ValidationFailed and nothing is persisted.
C18_ValidationFailed ==
  /\ \A sc \in TaskSchemas, u \in RecordUsers, body \in CreateBodies :
       (ViolatesTaskConstraint(body) \/ body.title = NoText) =>
         \A o \in {TasksPOSTBody(sc, u, body), createTaskData(sc, u, body)} :
           Kind(o.resp) = "ValidationFailed" /\ o.tasks = tasks
  /\ \A t \in DOMAIN tasks, body \in UpdateBodies :
       ViolatesTaskConstraint(body) =>
         \A o \in TaskUpdates(t, body) :
           Kind(o.resp) = "ValidationFailed" /\ o.tasks = tasks
  /\ \A u \in RecordUsers, c \in RecordCategoryIds, name \in NameInputs :
       ~ValidName(name) =>
         \A o \in CategoryNameWrites(u, c, name) :
           Kind(o.resp) = "ValidationFailed" /\ o.categories = categories

\* C18 for the payloads that break a constraint as given, before any
\* trimming, and for the handlers that parse the payload with zod
C18_RawViolations ==
  /\ \A sc \in TaskSchemas, u \in RecordUsers, body \in CreateBodies :
       taskCreateSchemaErrors(body) # {} =>
         \A o \in {TasksPOSTBody(sc, u, body), createTaskData(sc, u, body)} :
           Kind(o.resp) = "ValidationFailed" /\ o.tasks = tasks
  /\ \A t \in DOMAIN tasks, body \in UpdateBodies :
       taskUpdateSchemaErrors(body) # {} =>
         \A o \in TaskUpdates(t, body) :
           Kind(o.resp) = "ValidationFailed" /\ o.tasks = tasks
  /\ \A u \in RecordUsers, c \in RecordCategoryIds, name \in NameInputs :
       ~categoryCreateSchema(name).success =>
         \A o \in CategoryNameWrites(u, c, name) \
                    {CategoryPATCHScoped(u, c, name)} :
           Kind(o.resp) = "ValidationFailed" /\ o.categories = categories

\* the error kind that the caller of an entry point is given: that of the
\* response or thrown message, and for apiClient what its pages read
ObservedKind(r) == IF r.via = "client" THEN pageErrorKind(r) ELSE Kind(r)

\* C20: a failing operation reports the kind of its cause, the same on every
\* entry point (REST handlers, server actions, apiClient): Unauthenticated
\* without a session, DuplicateName for a name the caller holds,
\* ConflictInUse for the delete of a category in use, NotFound for an id
\* that no record has.
C20_ErrorKinds ==
  /\ \A o \in AllRequests(NoSession) : ObservedKind(o.resp) = "Unauthenticated"
  /\ \A u \in Users, n \in NameInputs :
       (ValidName(n) /\ Holds(u, n, Null)) =>
         \A o \in {CategoriesPOST(u, n), createCategory(u, n),
                   apiClient(createCategory(u, n))} :
           ObservedKind(o.resp) = "DuplicateName"
  /\ \A u \in Users, n \in NameInputs : \A c \in OwnCategories(u) :
       (ValidName(n) /\ Holds(u, n, c)) =>
         \A o \in {CategoryPATCH(u, c, n), CategoryPATCHScoped(u, c, n),
                   updateCategory(u, c, n), apiClient(updateCategory(u, c, n))} :
           ObservedKind(o.resp) = "DuplicateName"
  /\ \A u \in Users : \A c \in OwnCategories(u) :
       tasksWithCategory(c) > 0 =>
         \A o \in {CategoryDELETE(u, c), CategoryDELETEScoped(u, c),
                   deleteCategory(u, c), apiClient(deleteCategory(u, c))} :
           ObservedKind(o.resp) = "ConflictInUse"
  /\ \A u \in Users, t \in TaskIds \ DOMAIN tasks :
       \A o \in {TaskGET(u, t), getTaskById(u, t), TaskDELETE(u, t),
                 deleteTask(u, t), apiClient(deleteTask(u, t))} :
         ObservedKind(o.resp) = "NotFound"

\* C20 for the REST handlers of src/src/app/api and the server actions other
\* than getTasks, on the causes that their code tells apart
C20_RestAndActions ==
  /\ \A o \in AllRequests(NoSession) \
                {getTasks(NoSession, s, c) :
                   s \in StatusParams, c \in CategoryIds \cup {Absent}} :
       Kind(o.resp) = "Unauthenticated"
  /\ \A u \in Users, n \in NameInputs :
       (ValidName(n) /\ Holds(u, n, Null)) =>
         \A o \in {CategoriesPOST(u, n), createCategory(u, n)} :
           Kind(o.resp) = "DuplicateName"
  /\ \A u \in Users, n \in NameInputs : \A c \in OwnCategories(u) :
       (ValidName(n) /\ Holds(u, n, c)) =>
         \A o \in {CategoryPATCH(u, c, n), updateCategory(u, c, n)} :
           Kind(o.resp) = "DuplicateName"
  /\ \A u \in Users, t \in TaskIds \ DOMAIN tasks :
       \A o \in {TaskGET(u, t), getTaskById(u, t), TaskDELETE(u, t),
                 deleteTask(u, t)} :
         Kind(o.resp) = "NotFound"

\* ---------------------------------------------------------------- C21
\* the public set as the claim lists it
PublicSet(path) ==
  \/ path \in {<<"/", "l", "o", "g", "i", "n">>, <<"/", "r", "e", "g", "i", "s", "t", "e", "r">>, <<"/">>}
  \/ StartsWith(path, <<"/", "_", "n", "e", "x", "t">>)
  \/ StartsWith(path, <<"/", "a", "p", "i", "/", "a", "u", "t", "h">>)
  \/ StartsWith(path, <<"/", "a", "p", "i", "/", "r", "e", "g", "i", "s", "t", "e", "r">>)
  \/ \E i \in 1..Len(path) : path[i] = "."

\* C21: a request to a path outside the public set proceeds only with a
\* session token; without a token, or when the token lookup throws, it is
\* redirected to /login.
C21_ProtectedPaths ==
  \A r \in Requests :
    (inflight[r] # Idle /\ ~PublicSet(inflight[r].name)) =>
      /\ inflight[r].pc = "next" => inflight[r].caller \in Users
      /\ inflight[r].caller \notin Users =>
           inflight[r].pc = "redirect:/login"

\* C21 for the requests that the middleware of part_001 is run on: its
\* decision is the one claimed
C21_WhereMatched ==
  \A r \in Requests :
    (/\ inflight[r] # Idle /\ ~PublicSet(inflight[r].name)
     /\ inflight[r].op = "part_001"
     /\ matcher("part_001", inflight[r].name)) =>
      /\ inflight[r].pc = "next" => inflight[r].caller \in Users
      /\ inflight[r].caller \notin Users =>
           inflight[r].pc = "redirect:/login"

\* ---------------------------------------------------------------- C22
\* a task refers to a category that was created and is gone
Dangling(t, c) ==
  /\ t \in DOMAIN tasks /\ tasks[t].categoryId = c
  /\ c \notin DOMAIN categories /\ c \notin freeCategoryIds

\* C22: the count of the tasks that name category C and the removal of C are
\* separate steps of a DELETE: the removal goes through whatever was written
\* in between, so a task created or updated to name C between the two is
\* left referring to the deleted C.
C22_CheckThenDelete ==
  [][\A r \in Requests :
       (/\ inflight[r] # Idle /\ inflight[r].op = "CategoryDELETE"
        /\ inflight[r].pc = "findByIdAndDelete"
        /\ inflight'[r] # inflight[r]) =>
         /\ inflight[r].id \notin DOMAIN categories'
         /\ inflight'[r].resp.status = 200
         /\ \A t \in DOMAIN tasks :
              tasks[t].categoryId = inflight[r].id =>
                Dangling(t, inflight[r].id)']_vars

\* after such an interleaving: the owner's DELETE of C was answered 200, C is
\* gone and a task of the owner refers to C
C22_Witness ==
  \E r \in Requests, t \in DOMAIN tasks :
    /\ inflight[r] # Idle /\ inflight[r].op = "CategoryDELETE"
    /\ inflight[r].pc = "answered" /\ inflight[r].resp.status = 200
    /\ Dangling(t, inflight[r].id)
    /\ tasks[t].userId = inflight[r].caller

\* ---------------------------------------------------------------- C23
\* the registration request r has been answered with success
RegisteredOk(r) ==
  /\ inflight[r] # Idle /\ inflight[r].op = "register"
  /\ inflight[r].pc = "answered" /\ Kind(inflight[r].resp) = "Ok"

\* C23: whatever the interleaving of concurrent registrations, no two users
\* have the same email, and two registrations of the same email that are in
\* progress together are not both answered with success.
C23_UniqueEmail ==
  /\ \A u, v \in DOMAIN users : users[u].email = users[v].email => u = v
  /\ \A r, s \in Requests :
       (/\ r # s /\ RegisteredOk(r) /\ RegisteredOk(s)) =>
         ToLowerCase(inflight[r].data.email)
           # ToLowerCase(inflight[s].data.email)

\* both registrations of one email passed User.findOne before either insert;
\* one was answered with success and the other with the error of the index
C23_Witness ==
  \E r, s \in Requests :
    /\ RegisteredOk(r)
    /\ inflight[s] # Idle /\ inflight[s].op = "register"
    /\ inflight[s].pc = "answered"
    /\ inflight[s].resp.error \in {"Registration failed",
                                   "E11000 duplicate key error"}
    /\ ToLowerCase(inflight[r].data.email)
         = ToLowerCase(inflight[s].data.email)

\* ---------------------------------------------------------------- C24
\* C24: whatever the page and limit parameters are, a task list response
\* reports a page number >= 1, a page size >= 1 and a finite total page
\* count >= 0 that is the least n with n * pageSize >= total; a request
\* that cannot be answered so is rejected.
C24_PaginationNumbers ==
  \A u \in ListUsers, pg \in PageTexts, li \in LimitTexts :
    \A o \in {TasksGETParams(u, pg, li), apiClientGetTasks(u, pg, li)} :
      Kind(o.resp) = "Ok" =>
        /\ o.pagination.page >= 1
        /\ o.pagination.limit >= 1
        /\ o.pagination.totalPages \notin {NaN, Infinity}
        /\ o.pagination.totalPages >= 0
        /\ o.pagination.totalPages * o.pagination.limit >= o.pagination.total
        /\ (o.pagination.totalPages - 1) * o.pagination.limit
             < o.pagination.total

\* C24 for the requests whose page and limit are absent or numerals >= 1
C24_PositiveNumbers ==
  \A u \in ListUsers, pg \in PageTexts, li \in LimitTexts :
    (/\ ParamOr(pg, DefaultPage) >= 1
     /\ ParamOr(li, DefaultLimit) >= 1) =>
      \A o \in {TasksGETParams(u, pg, li), apiClientGetTasks(u, pg, li)} :
        /\ Kind(o.resp) = "Ok"
        /\ o.pagination.page = ParamOr(pg, DefaultPage)
        /\ o.pagination.limit = ParamOr(li, DefaultLimit)
        /\ o.pagination.totalPages >= 0
        /\ o.pagination.totalPages * o.pagination.limit >= o.pagination.total
        /\ (o.pagination.totalPages - 1) * o.pagination.limit
             < o.pagination.total

\* ---------------------------------------------------------------- C25
\* C25: in every reachable state, whichever entry point wrote it, every
\* persisted task has a trimmed title of 3 to 100 characters, a description
\* of at most 1000 characters when it has one, and a status and a priority
\* of their enumerations.
C25_PersistedTaskValid ==
  \A t \in DOMAIN tasks :
    /\ tasks[t].title \notin {NoText, NullText}
    /\ tasks[t].title = Trim(tasks[t].title)
    /\ Len(tasks[t].title) >= TitleMin /\ Len(tasks[t].title) <= TitleMax
    /\ tasks[t].description \notin {NoText, NullText} =>
         Len(tasks[t].description) <= DescriptionMax
    /\ tasks[t].status \in TaskStatusValues
    /\ tasks[t].priority \in PriorityInputs

\* ---------------------------------------------------------------- C26
\* C26: in every interleaving of concurrent dbConnect calls at most one
\* connection attempt is in flight, an attempt is started only when every
\* earlier one has failed, and once an attempt has succeeded every call that
\* returns gives the connection of that attempt.
C26_OneAttempt ==
  /\ Cardinality({a \in 1..Len(cached.attempts) :
                    cached.attempts[a] = "pending"}) <= 1
  /\ \A a \in 1..Len(cached.attempts) :
       cached.attempts[a] # "rejected" =>
         \A b \in 1..(a - 1) : cached.attempts[b] = "rejected"
  /\ cached.conn # Null => cached.attempts[cached.conn] = "fulfilled"
  /\ \A r \in Requests :
       (/\ inflight[r] # Idle /\ inflight[r].op = "dbConnect"
        /\ inflight[r].pc = "answered" /\ inflight[r].resp = Returned) =>
         /\ inflight[r].total = cached.conn
         /\ cached.attempts[inflight[r].total] = "fulfilled"

\* the first attempt failed for a call that was answered with its error, the
\* second succeeded, and two calls hold the connection of the second: one
\* that awaited it and one that found it cached
C26_Witness ==
  /\ Len(cached.attempts) = 2
  /\ cached.attempts = <<"rejected", "fulfilled">>
  /\ \A r \in Requests :
       /\ inflight[r] # Idle /\ inflight[r].op = "dbConnect"
       /\ inflight[r].pc = "answered" /\ inflight[r].resp = Returned
       /\ inflight[r].total = 2

\* ---------------------------------------------------------------- C27
\* the list request r has been answered with success
ListAnswered(r) ==
  /\ inflight[r] # Idle /\ inflight[r].op = "TasksGET"
  /\ inflight[r].pc = "answered" /\ Kind(inflight[r].resp) = "Ok"

\* C27: in every task list response the total is the number of the caller's
\* matching tasks in the state of the store from which the items were read
\* (here: the items themselves, the page size being above their number),
\* also when creates and deletes fall between the two calls of the handler.
C27_TotalOfItems ==
  \A r \in Requests :
    ListAnswered(r) => inflight[r].total = Cardinality(inflight[r].items)

\* ---------------------------------------------------------------- C28
\* the update r of task t has been answered with success
UpdateAnswered(r, t) ==
  /\ inflight[r] # Idle /\ inflight[r].op = "TaskPATCH"
  /\ inflight[r].pc = "answered" /\ Kind(inflight[r].resp) = "Ok"
  /\ inflight[r].id = t

\* the task t carries the fields that data sets
Carries(doc, data) ==
  /\ (data.status # NoKey => doc.status = data.status)
  /\ (data.categoryId # Absent => doc.categoryId = data.categoryId)

\* C28: two updates of one task with disjoint fields (one sets the status,
\* the other the category) leave the task with both changes, in whatever
\* order their lookups and writes were served: the write of the later one
\* keeps the field the earlier one has set and sets its own.
C28_DisjointUpdates ==
  [][\A r, s \in Requests, t \in RaceTaskIds :
       (/\ UpdateAnswered(r, t)
        /\ t \in DOMAIN tasks /\ Carries(tasks[t], inflight[r].data)
        /\ inflight[s] # Idle /\ inflight[s].op = "TaskPATCH"
        /\ inflight[s].pc = "findByIdAndUpdate" /\ inflight[s].id = t
        /\ inflight[r].data.status = NoKey \/ inflight[s].data.status = NoKey
        /\ \/ inflight[r].data.categoryId = Absent
           \/ inflight[s].data.categoryId = Absent
        /\ inflight'[s] # inflight[s]) =>
         /\ Kind(inflight'[s].resp) = "Ok"
         /\ t \in DOMAIN tasks'
         /\ Carries(tasks'[t], inflight[r].data)
         /\ Carries(tasks'[t], inflight[s].data)]_vars

\* both updates of task 1 have been answered: the status through the route,
\* the category through the server action
C28_Witness ==
  \E r, s \in Requests :
    /\ UpdateAnswered(r, 1) /\ UpdateAnswered(s, 1)
    /\ inflight[r].via = "rest" /\ inflight[r].data.status = COMPLETED
    /\ inflight[s].via = "action" /\ inflight[s].data.categoryId = 1
    /\ tasks[1].status = COMPLETED /\ tasks[1].categoryId = 1

\* ---------------------------------------------------------------- C29
\* C29: a task that was deleted is never present again; an update that
\* passed its lookup before a delete of the task completed writes nothing
\* and is not answered with success.
C29_DeletedStaysDeleted ==
  [][/\ \A t \in RaceTaskIds :
          (t \notin DOMAIN tasks /\ t \notin freeTaskIds) =>
            t \notin DOMAIN tasks'
     /\ \A r \in Requests :
          (/\ inflight[r] # Idle /\ inflight[r].op = "TaskPATCH"
           /\ inflight[r].pc = "findByIdAndUpdate"
           /\ inflight[r].id \notin DOMAIN tasks
           /\ inflight'[r] # inflight[r]) =>
            /\ tasks' = tasks
            /\ Kind(inflight'[r].resp) # "Ok"]_vars

\* the delete of task 1 was answered with success, task 1 is gone, and the
\* update of task 1 that had passed its lookup was answered with an error
C29_Witness ==
  \E r, s \in Requests :
    /\ inflight[r] # Idle /\ inflight[r].op = "TaskDELETE"
    /\ inflight[r].pc = "answered" /\ Kind(inflight[r].resp) = "Ok"
    /\ inflight[r].id = 1
    /\ inflight[s] # Idle /\ inflight[s].op = "TaskPATCH"
    /\ inflight[s].pc = "answered" /\ inflight[s].id = 1
    /\ inflight[s].resp.error \in {"Failed to update task",
                                   "Cannot read properties of null"}
    /\ 1 \notin DOMAIN tasks /\ 1 \notin freeTaskIds

\* ---------------------------------------------------------------- C30
\* the exposed list and pagination are the server's list result for the URL
HookShown ==
  LET out == getTasksQuery(HookUser, HookParams(hook.url)) IN
  /\ hook.filteredTasks = out.items
  /\ hook.pagination = out.pagination

\* C30: after any URL changes and refreshes, once loading has ended the
\* exposed task list and pagination eventually are the server's list result
\* for the current query; a page change while tasks are loaded ends with
\* the requested page shown. (The store does not change while the page is
\* open, so a response of any age is the server's present result.)
C30_EventuallyShown == (~hook.isLoading) ~> HookShown

\* C30 while nothing is loaded: a page with an empty loaded list that has
\* come to rest shows the server's result for its URL
C30_ShownWhenEmpty ==
  (/\ ~hook.isLoading /\ ~hook.effects /\ hook.request = <<>>
   /\ hook.tasks = {} /\ ~hook.isClientSideFiltering) => HookShown

====
